---- MODULE Spec2Model ----
(***************************************************************************)
(* A model of crates/egui-winit/src/lib.rs: the viewport reconciler        *)
(* (changes_between_builders) and the input translator (State::on_event    *)
(* and the handlers it calls).                                             *)
(*                                                                         *)
(* Rust's Option<T> is modelled as a sequence of length 0 or 1:            *)
(*   None == << >>,  Some(v) == <<v>>                                      *)
(* so that Option<Option<T>> (position, inner_size, icon ...) nests.       *)
(***************************************************************************)
EXTENDS Integers, Sequences, FiniteSets, TLC

VARIABLES
    \* ---- viewport reconciler ----
    last,               \* the `last: &mut ViewportBuilder` snapshot
    new,                \* the `new: &ViewportBuilder` of the latest call
    commands,           \* the Vec<ViewportCommand> returned by the latest call
    recreate_window,    \* the bool returned by the latest call
    prev,               \* `last` as it was when the latest call began
    frames              \* number of calls of changes_between_builders so far

diffVars == <<last, new, commands, recreate_window, prev, frames>>

VARIABLES
    \* ---- input translator ----
    state,              \* the `State` struct (egui_input.events is state.events)
    pre,                \* what `state` held when the latest native event arrived
    native_event,       \* the latest winit WindowEvent or platform output handled
    touches_down,       \* windowing layer: ids of the touches now in contact
    response,           \* Option<EventResponse>: what the latest on_event returned
    native_calls,       \* calls the latest handler made on the winit Window
    target_os,          \* the cfg!(target_os) of the build
    egui_ctx,           \* what the egui::Context answers since its latest frame
    composition_open,   \* the events pushed so far end inside a CompositionStart
    synthetic_touch_open \* the synthetic Touch events pushed so far end in a Start or Move

\* What on_event reads and never writes.
hostVars == <<target_os, egui_ctx>>

inputVars ==
    <<state, pre, native_event, touches_down, response, native_calls, target_os, egui_ctx,
      composition_open, synthetic_touch_open>>

vars == <<diffVars, inputVars>>

\* ------------------------------------------------------------------------
\* Option<T>

None == << >>

Some(v) == <<v>>

IsSome(o) == o # << >>

Unwrap(o) == o[1]

\* ------------------------------------------------------------------------
\* Bounds of the model

\* How many times changes_between_builders is called in one run.
MaxFrames == 2

\* Touch ids the windowing layer hands out: 1..MaxTouchId.
MaxTouchId == 2

\* A native event is translated only while at most this many events wait in
\* the queue for take_egui_input.
MaxPending == 0

\* ------------------------------------------------------------------------
\* ViewportBuilder values

PosA == <<10, 20>>
PosB == <<30, 40>>
Size800 == <<800, 600>>
Size1024 == <<1024, 768>>

\* An Arc<(u32, u32, Vec<u8>)>: `ptr` is the allocation (what Arc::ptr_eq
\* compares), `img` the image it holds.  Two allocations may hold equal images.
ArcIcon(p, i) == [ptr |-> p, img |-> i]

IconA1 == ArcIcon("a1", <<1, 1, "rgba_A">>)
IconA2 == ArcIcon("a2", <<1, 1, "rgba_A">>)
IconB == ArcIcon("b", <<2, 2, "rgba_B">>)

ptr_eq_ByContents(a, b) == a.img = b.img

\* Arc::ptr_eq
ptr_eq(a, b) == a.ptr = b.ptr

BoolOpt == {None, Some(TRUE), Some(FALSE)}

OptPairOpt(vals) == {None, Some(None)} \cup {Some(Some(v)) : v \in vals}

\* The values each field of a ViewportBuilder takes in the model.
FieldValues ==
    [ title                |-> {"", "X"},
      position             |-> OptPairOpt({PosA, PosB}),
      inner_size           |-> OptPairOpt({Size800, Size1024}),
      min_inner_size       |-> OptPairOpt({Size800}),
      max_inner_size       |-> OptPairOpt({Size1024}),
      fullscreen           |-> BoolOpt,
      minimized            |-> BoolOpt,
      maximized            |-> BoolOpt,
      resizable            |-> BoolOpt,
      transparent          |-> BoolOpt,
      decorations          |-> BoolOpt,
      icon                 |-> OptPairOpt({IconA1, IconA2, IconB}),
      visible              |-> BoolOpt,
      hittest              |-> BoolOpt,
      active               |-> BoolOpt,
      close_button         |-> BoolOpt,
      minimize_button      |-> BoolOpt,
      maximize_button      |-> BoolOpt,
      title_hidden         |-> BoolOpt,
      titlebar_transparent |-> BoolOpt,
      fullsize_content_view |-> BoolOpt ]

FieldNames == DOMAIN FieldValues

\* ViewportBuilder::default(): nothing specified.
DefaultBuilder ==
    [ title                |-> "",
      position             |-> None,
      inner_size           |-> None,
      min_inner_size       |-> None,
      max_inner_size       |-> None,
      fullscreen           |-> None,
      minimized            |-> None,
      maximized            |-> None,
      resizable            |-> None,
      transparent          |-> None,
      decorations          |-> None,
      icon                 |-> None,
      visible              |-> None,
      hittest              |-> None,
      active               |-> None,
      close_button         |-> None,
      minimize_button      |-> None,
      maximize_button      |-> None,
      title_hidden         |-> None,
      titlebar_transparent |-> None,
      fullsize_content_view |-> None ]

\* A builder with every Option field specified.
FullBuilder(b, pos, size, icon, title) ==
    [ title                |-> title,
      position             |-> Some(Some(pos)),
      inner_size           |-> Some(Some(size)),
      min_inner_size       |-> Some(Some(Size800)),
      max_inner_size       |-> Some(Some(Size1024)),
      fullscreen           |-> Some(b),
      minimized            |-> Some(b),
      maximized            |-> Some(b),
      resizable            |-> Some(b),
      transparent          |-> Some(b),
      decorations          |-> Some(b),
      icon                 |-> Some(Some(icon)),
      visible              |-> Some(b),
      hittest              |-> Some(b),
      active               |-> Some(b),
      close_button         |-> Some(b),
      minimize_button      |-> Some(b),
      maximize_button      |-> Some(b),
      title_hidden         |-> Some(b),
      titlebar_transparent |-> Some(b),
      fullsize_content_view |-> Some(b) ]

\* Builders that differ from the default in exactly one field.
SingleFieldBuilders ==
    UNION { {[DefaultBuilder EXCEPT ![f] = v] : v \in FieldValues[f]} : f \in FieldNames }

\* Builders that specify `visible` and `active` together.
VisibleActiveBuilders ==
    { [DefaultBuilder EXCEPT !.visible = Some(v), !.active = Some(a)] :
        v \in BOOLEAN, a \in BOOLEAN }

\* previous = {size: (800,600)}
ScenarioPrevious == [DefaultBuilder EXCEPT !.inner_size = Some(Some(Size800))]

\* desired = {size: (1024,768), title: "X"}
ScenarioDesired ==
    [DefaultBuilder EXCEPT !.inner_size = Some(Some(Size1024)), !.title = "X"]

FullBuilders ==
    { FullBuilder(TRUE, PosA, Size800, IconA1, ""),
      FullBuilder(FALSE, PosB, Size1024, IconB, "X") }

\* The desired builders a frame may pass as `new`.
NewBuilders ==
    SingleFieldBuilders \cup VisibleActiveBuilders \cup FullBuilders
        \cup {DefaultBuilder, ScenarioDesired}

\* The snapshots a window may have been created with; the frames that
\* follow lead to the others.
LastBuilders ==
    VisibleActiveBuilders \cup FullBuilders \cup {DefaultBuilder, ScenarioPrevious}

\* ------------------------------------------------------------------------
\* ViewportCommand

Cmd(k, v) == [cmd |-> k, val |-> v]

\* ------------------------------------------------------------------------
\* changes_between_builders, one definition per `if let Some(..) = new.<field>`
\* block.  `st` is [last, commands, recreate_window] as the function runs.

DiffStart(l) == [last |-> l, commands |-> << >>, recreate_window |-> FALSE]

DiffPosition(n, st) ==
    IF IsSome(n.position) /\ n.position # st.last.position
    THEN [st EXCEPT !.last.position = n.position,
                    !.commands = IF IsSome(Unwrap(n.position))
                                 THEN Append(@, Cmd("OuterPosition", Unwrap(Unwrap(n.position))))
                                 ELSE @]
    ELSE st

\* DiffInnerSize with the command of the neighbouring block.
DiffInnerSize_WrongCommand(n, st) ==
    IF IsSome(n.inner_size) /\ n.inner_size # st.last.inner_size
    THEN [st EXCEPT !.last.inner_size = n.inner_size,
                    !.commands = Append(@, Cmd("MinInnerSize", Unwrap(n.inner_size)))]
    ELSE st

DiffInnerSize(n, st) ==
    IF IsSome(n.inner_size) /\ n.inner_size # st.last.inner_size
    THEN [st EXCEPT !.last.inner_size = n.inner_size,
                    !.commands = IF IsSome(Unwrap(n.inner_size))
                                 THEN Append(@, Cmd("InnerSize", Unwrap(Unwrap(n.inner_size))))
                                 ELSE @]
    ELSE st

DiffMinInnerSize(n, st) ==
    IF IsSome(n.min_inner_size) /\ n.min_inner_size # st.last.min_inner_size
    THEN [st EXCEPT !.last.min_inner_size = n.min_inner_size,
                    !.commands = Append(@, Cmd("MinInnerSize", Unwrap(n.min_inner_size)))]
    ELSE st

DiffMaxInnerSize(n, st) ==
    IF IsSome(n.max_inner_size) /\ n.max_inner_size # st.last.max_inner_size
    THEN [st EXCEPT !.last.max_inner_size = n.max_inner_size,
                    !.commands = Append(@, Cmd("MaxInnerSize", Unwrap(n.max_inner_size)))]
    ELSE st

\* DiffFullscreen that forgets the snapshot's value when `new` names none.
DiffFullscreen_ForgetsUnspecified(n, st) ==
    IF IsSome(n.fullscreen) /\ n.fullscreen # st.last.fullscreen
    THEN [st EXCEPT !.last.fullscreen = n.fullscreen,
                    !.commands = Append(@, Cmd("Fullscreen", Unwrap(n.fullscreen)))]
    ELSE IF n.fullscreen = None THEN [st EXCEPT !.last.fullscreen = None]
    ELSE st

DiffFullscreen(n, st) ==
    IF IsSome(n.fullscreen) /\ n.fullscreen # st.last.fullscreen
    THEN [st EXCEPT !.last.fullscreen = n.fullscreen,
                    !.commands = Append(@, Cmd("Fullscreen", Unwrap(n.fullscreen)))]
    ELSE st

DiffMinimized(n, st) ==
    IF IsSome(n.minimized) /\ n.minimized # st.last.minimized
    THEN [st EXCEPT !.last.minimized = n.minimized,
                    !.commands = Append(@, Cmd("Minimized", Unwrap(n.minimized)))]
    ELSE st

DiffMaximized(n, st) ==
    IF IsSome(n.maximized) /\ n.maximized # st.last.maximized
    THEN [st EXCEPT !.last.maximized = n.maximized,
                    !.commands = Append(@, Cmd("Maximized", Unwrap(n.maximized)))]
    ELSE st

DiffResizable(n, st) ==
    IF IsSome(n.resizable) /\ n.resizable # st.last.resizable
    THEN [st EXCEPT !.last.resizable = n.resizable,
                    !.commands = Append(@, Cmd("Resizable", Unwrap(n.resizable)))]
    ELSE st

DiffTransparent(n, st) ==
    IF IsSome(n.transparent) /\ n.transparent # st.last.transparent
    THEN [st EXCEPT !.last.transparent = n.transparent,
                    !.commands = Append(@, Cmd("Transparent", Unwrap(n.transparent)))]
    ELSE st

DiffDecorations(n, st) ==
    IF IsSome(n.decorations) /\ n.decorations # st.last.decorations
    THEN [st EXCEPT !.last.decorations = n.decorations,
                    !.commands = Append(@, Cmd("Decorations", Unwrap(n.decorations)))]
    ELSE st

\* The `eq` of the icon block: pointer equality of the two Arcs when the new
\* icon is Some(Some(..)), `last.icon == Some(None)` when it is Some(None).
IconEq(icon, last_icon) ==
    IF IsSome(icon)
    THEN IF IsSome(last_icon)
         THEN IsSome(Unwrap(last_icon)) /\ ptr_eq(Unwrap(icon), Unwrap(Unwrap(last_icon)))
         ELSE FALSE
    ELSE last_icon = Some(None)

DiffIcon(n, st) ==
    IF IsSome(n.icon) /\ ~IconEq(Unwrap(n.icon), st.last.icon)
    THEN [st EXCEPT !.commands =
                        Append(@, Cmd("WindowIcon",
                                      IF IsSome(Unwrap(n.icon))
                                      THEN Some(Unwrap(Unwrap(n.icon)).img)
                                      ELSE None)),
                    !.last.icon = n.icon]
    ELSE st

\* `visible` is compared with last.active, as the source does.
DiffVisible(n, st) ==
    IF IsSome(n.visible) /\ n.visible # st.last.active
    THEN [st EXCEPT !.last.visible = n.visible,
                    !.commands = Append(@, Cmd("Visible", Unwrap(n.visible)))]
    ELSE st

DiffHittest(n, st) ==
    IF IsSome(n.hittest) /\ n.hittest # st.last.hittest
    THEN [st EXCEPT !.last.hittest = n.hittest,
                    !.commands = Append(@, Cmd("CursorHitTest", Unwrap(n.hittest)))]
    ELSE st

DiffActive(n, st) ==
    IF IsSome(n.active) /\ n.active # st.last.active
    THEN [st EXCEPT !.last.active = n.active, !.recreate_window = TRUE]
    ELSE st

\* DiffCloseButton without the recreate request.
DiffCloseButton_NoRecreate(n, st) ==
    IF IsSome(n.close_button) /\ n.close_button # st.last.close_button
    THEN [st EXCEPT !.last.close_button = n.close_button]
    ELSE st

DiffCloseButton(n, st) ==
    IF IsSome(n.close_button) /\ n.close_button # st.last.close_button
    THEN [st EXCEPT !.last.close_button = n.close_button, !.recreate_window = TRUE]
    ELSE st

DiffMinimizeButton(n, st) ==
    IF IsSome(n.minimize_button) /\ n.minimize_button # st.last.minimize_button
    THEN [st EXCEPT !.last.minimize_button = n.minimize_button, !.recreate_window = TRUE]
    ELSE st

DiffMaximizeButton(n, st) ==
    IF IsSome(n.maximize_button) /\ n.maximize_button # st.last.maximize_button
    THEN [st EXCEPT !.last.maximize_button = n.maximize_button, !.recreate_window = TRUE]
    ELSE st

DiffTitleHidden(n, st) ==
    IF IsSome(n.title_hidden) /\ n.title_hidden # st.last.title_hidden
    THEN [st EXCEPT !.last.title_hidden = n.title_hidden, !.recreate_window = TRUE]
    ELSE st

DiffTitlebarTransparent(n, st) ==
    IF IsSome(n.titlebar_transparent) /\ n.titlebar_transparent # st.last.titlebar_transparent
    THEN [st EXCEPT !.last.titlebar_transparent = n.titlebar_transparent,
                    !.recreate_window = TRUE]
    ELSE st

DiffFullsizeContentView(n, st) ==
    IF IsSome(n.fullsize_content_view) /\ n.fullsize_content_view # st.last.fullsize_content_view
    THEN [st EXCEPT !.last.fullsize_content_view = n.fullsize_content_view,
                    !.recreate_window = TRUE]
    ELSE st

\* DiffRuntime with the icon block moved below the visible block.
DiffRuntime_IconAfterVisible(n, st) ==
    DiffHittest(n,
    DiffIcon(n,
    DiffVisible(n,
    DiffDecorations(n,
    DiffTransparent(n,
    DiffResizable(n,
    DiffMaximized(n,
    DiffMinimized(n,
    DiffFullscreen(n,
    DiffMaxInnerSize(n,
    DiffMinInnerSize(n,
    DiffInnerSize(n,
    DiffPosition(n, st)))))))))))))

\* The runtime-mutable fields, in source order.
DiffRuntime(n, st) ==
    DiffHittest(n,
    DiffVisible(n,
    DiffIcon(n,
    DiffDecorations(n,
    DiffTransparent(n,
    DiffResizable(n,
    DiffMaximized(n,
    DiffMinimized(n,
    DiffFullscreen(n,
    DiffMaxInnerSize(n,
    DiffMinInnerSize(n,
    DiffInnerSize(n,
    DiffPosition(n, st)))))))))))))

\* The creation-only fields, in source order.
DiffCreation(n, st) ==
    DiffFullsizeContentView(n,
    DiffTitlebarTransparent(n,
    DiffTitleHidden(n,
    DiffMaximizeButton(n,
    DiffMinimizeButton(n,
    DiffCloseButton(n,
    DiffActive(n, st)))))))

\* changes_between_builders(new, last): the final `last`, the commands and
\* the recreate flag.
changes_between_builders(n, l) == DiffCreation(n, DiffRuntime(n, DiffStart(l)))

\* ------------------------------------------------------------------------
\* The input translator: State and the handlers on_event calls.

\* egui::Modifiers::default()
DefaultModifiers ==
    [alt |-> FALSE, ctrl |-> FALSE, shift |-> FALSE, mac_cmd |-> FALSE, command |-> FALSE]

\* State::new
NewState ==
    [ events                   |-> << >>,
      modifiers                |-> DefaultModifiers,
      pointer_pos_in_points    |-> None,
      any_pointer_button_down  |-> FALSE,
      current_pixels_per_point |-> 1,
      simulate_touch_screen    |-> FALSE,
      pointer_touch_id         |-> None,
      current_cursor_icon      |-> None,
      clipboard                |-> None,
      input_method_editor_started |-> FALSE,
      focused                  |-> FALSE,
      hovered_files            |-> << >>,
      dropped_files            |-> << >> ]

\* Physical positions (pixels) of native pointer and touch events; both
\* coordinates divide by every scale factor of the model, so that the f32
\* division is exact.
PixelPositions == {<<4, 8>>, <<12, 20>>}

ScaleFactors == {1, 2}

TouchIds == 1..MaxTouchId

DeviceIds == {"touchscreen"}

TouchPhases == {"Started", "Moved", "Ended", "Cancelled"}

\* Option<winit::event::Force>
TouchForces ==
    { None,
      Some([kind |-> "Normalized", force |-> <<1, 2>>]),
      Some([kind |-> "Calibrated", force |-> 3, max_possible_force |-> 4]) }

\* winit::event::MouseButton
MouseButtons ==
    {<<"Left">>, <<"Right">>, <<"Middle">>, <<"Other", 1>>, <<"Other", 2>>, <<"Other", 3>>}

\* egui::epaint::util::hash of a winit DeviceId: an opaque function of it.
hash(device_id) == <<"hash", device_id>>

TouchDeviceId(x) == <<"TouchDeviceId", x>>

TouchId(x) == <<"TouchId", x>>

\* egui::Event
TouchEvent(device_id, id, phase, pos, force) ==
    [type |-> "Touch", device_id |-> device_id, id |-> id, phase |-> phase,
     pos |-> pos, force |-> force]

PointerMoved(pos) == [type |-> "PointerMoved", pos |-> pos]

PointerButton_DefaultModifiers(pos, button, pressed, modifiers) ==
    [type |-> "PointerButton", pos |-> pos, button |-> button, pressed |-> pressed,
     modifiers |-> DefaultModifiers]

PointerButton(pos, button, pressed, modifiers) ==
    [type |-> "PointerButton", pos |-> pos, button |-> button, pressed |-> pressed,
     modifiers |-> modifiers]

PointerGone == [type |-> "PointerGone"]

\* self.egui_input.events.push(e)
Push(s, e) == [s EXCEPT !.events = Append(@, e)]

translate_mouse_button(button) ==
    CASE button = <<"Left">> -> Some("Primary")
      [] button = <<"Right">> -> Some("Secondary")
      [] button = <<"Middle">> -> Some("Middle")
      [] button = <<"Other", 1>> -> Some("Extra1")
      [] button = <<"Other", 2>> -> Some("Extra2")
      [] OTHER -> None

\* pos_in_pixels / self.pixels_per_point(), per coordinate
ToPoints(s, pos_in_pixels) ==
    << pos_in_pixels[1] \div s.current_pixels_per_point,
       pos_in_pixels[2] \div s.current_pixels_per_point >>

on_mouse_button_input(s, element_state, mouse_button) ==
    IF IsSome(s.pointer_pos_in_points) /\ IsSome(translate_mouse_button(mouse_button))
    THEN LET pos == Unwrap(s.pointer_pos_in_points)
             button == Unwrap(translate_mouse_button(mouse_button))
             pressed == (element_state = "Pressed")
             s1 == Push(s, PointerButton(pos, button, pressed, s.modifiers))
         IN IF s1.simulate_touch_screen
            THEN IF pressed
                 THEN Push([s1 EXCEPT !.any_pointer_button_down = TRUE],
                           TouchEvent(TouchDeviceId(0), TouchId(0), "Start", pos, None))
                 ELSE Push(Push([s1 EXCEPT !.any_pointer_button_down = FALSE], PointerGone),
                           TouchEvent(TouchDeviceId(0), TouchId(0), "End", pos, None))
            ELSE s1
    ELSE s

on_cursor_moved(s, pos_in_pixels) ==
    LET pos_in_points == ToPoints(s, pos_in_pixels)
        s1 == [s EXCEPT !.pointer_pos_in_points = Some(pos_in_points)]
    IN IF s1.simulate_touch_screen
       THEN IF s1.any_pointer_button_down
            THEN Push(Push(s1, PointerMoved(pos_in_points)),
                      TouchEvent(TouchDeviceId(0), TouchId(0), "Move", pos_in_points, None))
            ELSE s1
       ELSE Push(s1, PointerMoved(pos_in_points))

\* winit's TouchPhase as egui's
TranslatePhase(phase) ==
    CASE phase = "Started" -> "Start"
      [] phase = "Moved" -> "Move"
      [] phase = "Ended" -> "End"
      [] phase = "Cancelled" -> "Cancel"

\* winit's Option<Force> as egui's Option<f32>; a quotient is kept as the
\* pair <<numerator, denominator>>.
TranslateForce(force) ==
    IF force = None THEN None
    ELSE IF Unwrap(force).kind = "Normalized"
         THEN Some(Unwrap(force).force)
         ELSE Some(<<Unwrap(force).force, Unwrap(force).max_possible_force>>)

\* The raw egui::Event::Touch that on_touch always pushes first.
RawTouch(s, touch) ==
    TouchEvent(TouchDeviceId(hash(touch.device_id)), TouchId(touch.id),
               TranslatePhase(touch.phase), ToPoints(s, touch.location),
               TranslateForce(touch.force))

\* TranslatesTouch without the check: every touch drives the pointer.
TranslatesTouch_Always(s, id) == TRUE

\* "If we're not yet translating a touch or we're translating this very touch"
TranslatesTouch(s, id) ==
    s.pointer_touch_id = None \/ Unwrap(s.pointer_touch_id) = id

\* EmulatePointer whose Cancelled arm frees the surrogate but keeps the pointer.
EmulatePointer_CancelKeepsPointer(s, touch) ==
    CASE touch.phase = "Started" ->
            on_mouse_button_input(
                on_cursor_moved([s EXCEPT !.pointer_touch_id = Some(touch.id)],
                                touch.location),
                "Pressed", <<"Left">>)
      [] touch.phase = "Moved" -> on_cursor_moved(s, touch.location)
      [] touch.phase = "Ended" ->
            Push([on_mouse_button_input([s EXCEPT !.pointer_touch_id = None],
                                        "Released", <<"Left">>)
                     EXCEPT !.pointer_pos_in_points = None],
                 PointerGone)
      [] touch.phase = "Cancelled" ->
            [s EXCEPT !.pointer_touch_id = None]

\* The `match touch.phase` that emulates the mouse.
EmulatePointer(s, touch) ==
    CASE touch.phase = "Started" ->
            on_mouse_button_input(
                on_cursor_moved([s EXCEPT !.pointer_touch_id = Some(touch.id)],
                                touch.location),
                "Pressed", <<"Left">>)
      [] touch.phase = "Moved" -> on_cursor_moved(s, touch.location)
      [] touch.phase = "Ended" ->
            Push([on_mouse_button_input([s EXCEPT !.pointer_touch_id = None],
                                        "Released", <<"Left">>)
                     EXCEPT !.pointer_pos_in_points = None],
                 PointerGone)
      [] touch.phase = "Cancelled" ->
            Push([s EXCEPT !.pointer_touch_id = None, !.pointer_pos_in_points = None],
                 PointerGone)

on_touch(s, touch) ==
    LET s1 == Push(s, RawTouch(s, touch))
    IN IF TranslatesTouch(s1, touch.id) THEN EmulatePointer(s1, touch) ELSE s1

\* ------------------------------------------------------------------------
\* The input translator as a state machine: one action per WindowEvent that
\* on_event matches, and take_egui_input.

NoEvent == [type |-> "None"]

\* What is remembered of `s` while the next native event is handled: the
\* pointer emulation's fields, the cursor icon, the IME flag and the length
\* of the queue.
Snapshot(s) ==
    [ pointer_touch_id      |-> s.pointer_touch_id,
      pointer_pos_in_points |-> s.pointer_pos_in_points,
      current_cursor_icon   |-> s.current_cursor_icon,
      input_method_editor_started |-> s.input_method_editor_started,
      queued                |-> Len(s.events) ]

EventResponse_Swapped(repaint, consumed) == [repaint |-> consumed, consumed |-> repaint]

\* EventResponse { repaint, consumed }
EventResponse(repaint, consumed) == [repaint |-> repaint, consumed |-> consumed]

\* An egui::Context that has not run a frame: no widget wants any input,
\* the zoom factor (in hundredths) is 1.0 and no key waits in its input.
DefaultContext ==
    [ wants_pointer_input  |-> FALSE,
      is_using_pointer     |-> FALSE,
      wants_keyboard_input |-> FALSE,
      pixels_per_point     |-> 1,
      zoom_factor          |-> <<100>>,
      input_events         |-> << >> ]

\* The input translator right after State::new, no native event handled yet.
InputIdle ==
    /\ state = NewState
    /\ pre = Snapshot(NewState)
    /\ native_event = NoEvent
    /\ touches_down = {}
    /\ response = None
    /\ native_calls = << >>
    /\ target_os = "linux"
    /\ egui_ctx = DefaultContext
    /\ composition_open = FALSE
    /\ synthetic_touch_open = FALSE

InitInput ==
    /\ InputIdle
    /\ last = DefaultBuilder
    /\ new = DefaultBuilder
    /\ commands = << >>
    /\ recreate_window = FALSE
    /\ prev = DefaultBuilder
    /\ frames = 0

\* The synthetic touch: device 0, touch 0.
IsSyntheticTouch(e) ==
    e.type = "Touch" /\ e.device_id = TouchDeviceId(0) /\ e.id = TouchId(0)

\* Whether a reader of the event stream has seen the synthetic touch start
\* and not end after `evs`, having seen that (or not) before them.
RECURSIVE SyntheticTouchOpenAfter(_, _)
SyntheticTouchOpenAfter(open, evs) ==
    IF evs = << >> THEN open
    ELSE LET e == evs[Len(evs)]
         IN IF IsSyntheticTouch(e) THEN e.phase # "End"
            ELSE SyntheticTouchOpenAfter(open, SubSeq(evs, 1, Len(evs) - 1))

\* on_event is entered with room in the queue.
Accepting == Len(state.events) <= MaxPending

\* on_event(WindowEvent::Touch(touch)).  The windowing layer starts a touch
\* whose id is not in contact, and moves, ends or cancels one that is.
OnTouch(touch) ==
    /\ Accepting
    /\ IF touch.phase = "Started" THEN touch.id \notin touches_down
                                  ELSE touch.id \in touches_down
    /\ touches_down' = CASE touch.phase = "Started" -> touches_down \cup {touch.id}
                         [] touch.phase = "Moved" -> touches_down
                         [] OTHER -> touches_down \ {touch.id}
    /\ state' = on_touch(state, touch)
    /\ pre' = Snapshot(state)
    /\ native_event' = [type |-> "Touch", touch |-> touch]
    /\ response' = Some(EventResponse(TRUE,
                        IF touch.phase = "Moved" THEN egui_ctx.is_using_pointer
                                                 ELSE egui_ctx.wants_pointer_input))
    /\ native_calls' = << >>
    /\ UNCHANGED <<composition_open, synthetic_touch_open, hostVars, diffVars>>

\* on_event(WindowEvent::CursorMoved { position })
OnCursorMoved(position) ==
    /\ Accepting
    /\ state' = on_cursor_moved(state, position)
    /\ pre' = Snapshot(state)
    /\ native_event' = [type |-> "CursorMoved", position |-> position]
    /\ response' = Some(EventResponse(TRUE, egui_ctx.is_using_pointer))
    /\ native_calls' = << >>
    /\ synthetic_touch_open' =
           SyntheticTouchOpenAfter(synthetic_touch_open,
                                   SubSeq(state'.events, Len(state.events) + 1,
                                          Len(state'.events)))
    /\ UNCHANGED <<touches_down, composition_open, hostVars, diffVars>>

\* on_event(WindowEvent::MouseInput { state, button })
OnMouseInput(element_state, button) ==
    /\ Accepting
    /\ state' = on_mouse_button_input(state, element_state, button)
    /\ pre' = Snapshot(state)
    /\ native_event' = [type |-> "MouseInput", state |-> element_state, button |-> button]
    /\ response' = Some(EventResponse(TRUE, egui_ctx.wants_pointer_input))
    /\ native_calls' = << >>
    /\ synthetic_touch_open' =
           SyntheticTouchOpenAfter(synthetic_touch_open,
                                   SubSeq(state'.events, Len(state.events) + 1,
                                          Len(state'.events)))
    /\ UNCHANGED <<touches_down, composition_open, hostVars, diffVars>>

\* on_event(WindowEvent::CursorLeft)
OnCursorLeft ==
    /\ Accepting
    /\ state' = Push([state EXCEPT !.pointer_pos_in_points = None], PointerGone)
    /\ pre' = Snapshot(state)
    /\ native_event' = [type |-> "CursorLeft"]
    /\ response' = Some(EventResponse(TRUE, FALSE))
    /\ native_calls' = << >>
    /\ UNCHANGED <<touches_down, composition_open, synthetic_touch_open, hostVars, diffVars>>

\* on_event(WindowEvent::ScaleFactorChanged { scale_factor })
OnScaleFactorChanged(scale_factor) ==
    /\ Accepting
    /\ state' = [state EXCEPT !.current_pixels_per_point = scale_factor]
    /\ pre' = Snapshot(state)
    /\ native_event' = [type |-> "ScaleFactorChanged", scale_factor |-> scale_factor]
    /\ response' = Some(EventResponse(TRUE, FALSE))
    /\ native_calls' = << >>
    /\ UNCHANGED <<touches_down, composition_open, synthetic_touch_open, hostVars, diffVars>>

TakeEguiInput_LeavesLast ==
    /\ state.events # << >> \/ state.dropped_files # << >>
    /\ state' = [state EXCEPT !.events = IF Len(@) > 1 THEN <<@[Len(@)]>> ELSE << >>,
                              !.dropped_files = << >>]
    /\ pre' = Snapshot(state)
    /\ native_event' = [type |-> "TakeEguiInput"]
    /\ response' = None
    /\ native_calls' = << >>
    /\ UNCHANGED <<touches_down, composition_open, synthetic_touch_open, hostVars, diffVars>>

\* take_egui_input: the frame takes the queued events and the dropped
\* files (RawInput::take moves both out into the RawInput it returns, and
\* copies the rest).
TakeEguiInput ==
    /\ state.events # << >> \/ state.dropped_files # << >>
    /\ state' = [state EXCEPT !.events = << >>, !.dropped_files = << >>]
    /\ pre' = Snapshot(state)
    /\ native_event' = [type |-> "TakeEguiInput"]
    /\ response' = None
    /\ native_calls' = << >>
    /\ UNCHANGED <<touches_down, composition_open, synthetic_touch_open, hostVars, diffVars>>

Touches ==
    [device_id : DeviceIds, id : TouchIds, phase : TouchPhases,
     location : PixelPositions, force : TouchForces]

NextInput ==
    \/ \E touch \in Touches : OnTouch(touch)
    \/ \E position \in PixelPositions : OnCursorMoved(position)
    \/ \E element_state \in {"Pressed", "Released"}, button \in MouseButtons :
           OnMouseInput(element_state, button)
    \/ OnCursorLeft
    \/ \E scale_factor \in ScaleFactors : OnScaleFactorChanged(scale_factor)
    \/ TakeEguiInput

SpecInput == InitInput /\ [][NextInput]_vars

\* ------------------------------------------------------------------------
\* The reconciler as a state machine: a window is created from some builder,
\* then each frame diffs a desired builder against the snapshot.

InitDiff ==
    /\ last \in LastBuilders
    /\ new = DefaultBuilder
    /\ commands = << >>
    /\ recreate_window = FALSE
    /\ prev = last
    /\ frames = 0
    /\ InputIdle

\* One call of changes_between_builders(&n, &mut last).
Reconcile(n) ==
    /\ frames < MaxFrames
    /\ LET r == changes_between_builders(n, last)
       IN /\ last' = r.last
          /\ commands' = r.commands
          /\ recreate_window' = r.recreate_window
    /\ new' = n
    /\ prev' = last
    /\ frames' = frames + 1
    /\ UNCHANGED inputVars

NextDiff == \E n \in NewBuilders : Reconcile(n)

SpecDiff == InitDiff /\ [][NextDiff]_vars

\* ------------------------------------------------------------------------
\* The egui::Context between native events: a frame may change what the
\* GUI wants.

\* Contexts that differ in whether a widget wants the keyboard.
KeyboardContexts ==
    { [DefaultContext EXCEPT !.wants_keyboard_input = w] : w \in BOOLEAN }

\* egui_ctx.run(..): the answers on_event reads from the Context change.
EguiRun(ctx) ==
    /\ ctx # egui_ctx
    /\ egui_ctx' = ctx
    /\ pre' = Snapshot(state)
    /\ native_event' = NoEvent
    /\ response' = None
    /\ native_calls' = << >>
    /\ UNCHANGED <<state, touches_down, target_os, composition_open, synthetic_touch_open, diffVars>>

\* ------------------------------------------------------------------------
\* WindowEvent::Ime

CompositionStart == [type |-> "CompositionStart"]

CompositionUpdate(text) == [type |-> "CompositionUpdate", text |-> text]

CompositionEnd(text) == [type |-> "CompositionEnd", text |-> text]

\* The texts an input method hands over.
ImeTexts == {"", "ni"}

\* winit::event::Ime
Imes ==
    {[kind |-> "Enabled"], [kind |-> "Disabled"]}
        \cup { [kind |-> "Preedit", text |-> t] : t \in ImeTexts }
        \cup { [kind |-> "Commit", text |-> t] : t \in ImeTexts }

\* Ime::Enabled | Ime::Disabled => ()
ImeEnabledOrDisabled_ClosesComposition(s) ==
    [s EXCEPT !.input_method_editor_started = FALSE]

ImeEnabledOrDisabled(s) == s

\* Ime::Commit(text)
ImeCommit(s, text) ==
    Push([s EXCEPT !.input_method_editor_started = FALSE], CompositionEnd(text))

\* Ime::Preedit(text, ..)
ImePreedit_AlwaysStarts(s, text) ==
    Push(Push([s EXCEPT !.input_method_editor_started = TRUE], CompositionStart),
         CompositionUpdate(text))

ImePreedit(s, text) ==
    LET started == IF ~s.input_method_editor_started
                   THEN Push([s EXCEPT !.input_method_editor_started = TRUE],
                             CompositionStart)
                   ELSE s
    IN Push(started, CompositionUpdate(text))

\* The `match ime` of on_event.
on_ime(s, ime) ==
    CASE ime.kind \in {"Enabled", "Disabled"} -> ImeEnabledOrDisabled(s)
      [] ime.kind = "Commit" -> ImeCommit(s, ime.text)
      [] ime.kind = "Preedit" -> ImePreedit(s, ime.text)

\* Whether a reader of the event stream is inside a composition after `evs`,
\* having been inside one (or not) before them.
RECURSIVE CompositionOpenAfter(_, _)
CompositionOpenAfter(open, evs) ==
    IF evs = << >> THEN open
    ELSE LET e == evs[Len(evs)]
         IN CASE e.type = "CompositionStart" -> TRUE
              [] e.type = "CompositionEnd" -> FALSE
              [] OTHER -> CompositionOpenAfter(open, SubSeq(evs, 1, Len(evs) - 1))

\* on_event(WindowEvent::Ime(ime))
OnIme(ime) ==
    /\ Accepting
    /\ state' = on_ime(state, ime)
    /\ pre' = Snapshot(state)
    /\ native_event' = [type |-> "Ime", ime |-> ime]
    /\ response' = Some(EventResponse(TRUE, egui_ctx.wants_keyboard_input))
    /\ native_calls' = << >>
    /\ composition_open' =
           CompositionOpenAfter(composition_open,
                                SubSeq(state'.events, Len(state.events) + 1,
                                       Len(state'.events)))
    /\ UNCHANGED <<touches_down, synthetic_touch_open, hostVars, diffVars>>

\* ------------------------------------------------------------------------
\* WindowEvent::ModifiersChanged and WindowEvent::ReceivedCharacter

\* The builds the crate is compiled for; only cfg!(target_os = "macos") is
\* ever asked.
TargetOs == {"linux", "macos", "windows"}

\* winit::event::ModifiersState
ModifiersStates == [alt : BOOLEAN, ctrl : BOOLEAN, shift : BOOLEAN, logo : BOOLEAN]

\* The body of the ModifiersChanged arm.
on_modifiers_changed(s, os, modifiers_state) ==
    [s EXCEPT !.modifiers =
        [ alt     |-> modifiers_state.alt,
          ctrl    |-> modifiers_state.ctrl,
          shift   |-> modifiers_state.shift,
          mac_cmd |-> (os = "macos") /\ modifiers_state.logo,
          command |-> IF os = "macos" THEN modifiers_state.logo
                                      ELSE modifiers_state.ctrl ]]

\* on_event(WindowEvent::ModifiersChanged(state))
OnModifiersChanged(modifiers_state) ==
    /\ Accepting
    /\ state' = on_modifiers_changed(state, target_os, modifiers_state)
    /\ pre' = Snapshot(state)
    /\ native_event' = [type |-> "ModifiersChanged", state |-> modifiers_state]
    /\ response' = Some(EventResponse(TRUE, FALSE))
    /\ native_calls' = << >>
    /\ UNCHANGED <<touches_down, composition_open, synthetic_touch_open, hostVars, diffVars>>

\* Unicode scalar values a keyboard can send, as code points: the ends of
\* the ASCII and C1 control ranges and of the three private use areas, their
\* neighbours, and '\u{7}', '\t', '\n', '\r', 'a'.
Chars ==
    { 0, 7, 9, 10, 13, 31, 32, 97, 126, 127, 128, 133, 159, 160,
      55295, 57344, 63743, 63744,
      983039, 983040, 1048573, 1048574, 1048575,
      1048576, 1114109, 1114110, 1114111 }

\* char::is_ascii_control: U+0000..=U+001F and U+007F
is_ascii_control(chr) == chr <= 31 \/ chr = 127

is_printable_char(chr) ==
    LET is_in_private_use_area ==
            \/ 57344 <= chr /\ chr <= 63743
            \/ 983040 <= chr /\ chr <= 1048573
            \/ 1048576 <= chr /\ chr <= 1114109
    IN ~is_in_private_use_area /\ ~is_ascii_control(chr)

\* char::to_string: the string of that one character.
to_string(ch) == <<ch>>

\* egui::Event::Text
Text(text) == [type |-> "Text", text |-> text]

is_mac_cmd(s, os) == (os = "macos") /\ (s.modifiers.ctrl \/ s.modifiers.mac_cmd)

\* on_event(WindowEvent::ReceivedCharacter(ch))
OnReceivedCharacter(ch) ==
    /\ Accepting
    /\ LET accepted == is_printable_char(ch) /\ ~is_mac_cmd(state, target_os)
       IN /\ state' = IF accepted THEN Push(state, Text(to_string(ch))) ELSE state
          /\ response' = Some(EventResponse(TRUE,
                              IF accepted THEN egui_ctx.wants_keyboard_input ELSE FALSE))
    /\ pre' = Snapshot(state)
    /\ native_event' = [type |-> "ReceivedCharacter", ch |-> ch]
    /\ native_calls' = << >>
    /\ UNCHANGED <<touches_down, composition_open, synthetic_touch_open, hostVars, diffVars>>

\* ------------------------------------------------------------------------
\* Text entry as a state machine: characters, IME notifications and modifier
\* changes arrive while frames take the queue and change what the GUI wants.

\* State::new on any build.
InitAnyBuild ==
    /\ state = NewState
    /\ pre = Snapshot(NewState)
    /\ native_event = NoEvent
    /\ touches_down = {}
    /\ response = None
    /\ native_calls = << >>
    /\ target_os \in TargetOs
    /\ egui_ctx = DefaultContext
    /\ composition_open = FALSE
    /\ synthetic_touch_open = FALSE
    /\ last = DefaultBuilder
    /\ new = DefaultBuilder
    /\ commands = << >>
    /\ recreate_window = FALSE
    /\ prev = DefaultBuilder
    /\ frames = 0

NextText ==
    \/ \E ime \in Imes : OnIme(ime)
    \/ \E ch \in Chars : OnReceivedCharacter(ch)
    \/ \E modifiers_state \in ModifiersStates : OnModifiersChanged(modifiers_state)
    \/ TakeEguiInput
    \/ \E ctx \in KeyboardContexts : EguiRun(ctx)

SpecText == InitAnyBuild /\ [][NextText]_vars

\* ------------------------------------------------------------------------
\* handle_platform_output and set_cursor_icon

\* egui::CursorIcon values whose winit::window::CursorIcon has another name.
RenamedCursors ==
    << <<"PointingHand", "Hand">>,
       <<"ResizeHorizontal", "EwResize">>, <<"ResizeNeSw", "NeswResize">>,
       <<"ResizeNwSe", "NwseResize">>, <<"ResizeVertical", "NsResize">>,
       <<"ResizeEast", "EResize">>, <<"ResizeSouthEast", "SeResize">>,
       <<"ResizeSouth", "SResize">>, <<"ResizeSouthWest", "SwResize">>,
       <<"ResizeWest", "WResize">>, <<"ResizeNorthWest", "NwResize">>,
       <<"ResizeNorth", "NResize">>, <<"ResizeNorthEast", "NeResize">>,
       <<"ResizeColumn", "ColResize">>, <<"ResizeRow", "RowResize">> >>

\* egui::CursorIcon values that keep their name in winit.
SameNameCursors ==
    { "Alias", "AllScroll", "Cell", "ContextMenu", "Copy", "Crosshair", "Default",
      "Grab", "Grabbing", "Help", "Move", "NoDrop", "NotAllowed", "Progress",
      "Text", "VerticalText", "Wait", "ZoomIn", "ZoomOut" }

\* egui::CursorIcon
CursorIcons ==
    {"None"} \cup SameNameCursors
        \cup { RenamedCursors[i][1] : i \in DOMAIN RenamedCursors }

translate_cursor(cursor_icon) ==
    IF cursor_icon = "None" THEN None
    ELSE IF cursor_icon \in SameNameCursors THEN Some(cursor_icon)
    ELSE LET i == CHOOSE j \in DOMAIN RenamedCursors : RenamedCursors[j][1] = cursor_icon
         IN Some(RenamedCursors[i][2])

\* Calls on the window and the host.
SetCursorVisible(visible) == [call |-> "set_cursor_visible", visible |-> visible]

SetCursorIcon(cursor) == [call |-> "set_cursor_icon", cursor |-> cursor]

SetImePosition(position) == [call |-> "set_ime_position", position |-> position]

OpenUrlInBrowser(url) == [call |-> "open_url_in_browser", url |-> url]

\* The two paths of set_cursor_icon that go on past the early return.
ApplyCursorIcon(s, cursor_icon) ==
    [ state |-> [s EXCEPT !.current_cursor_icon = Some(cursor_icon)],
      calls |-> IF IsSome(translate_cursor(cursor_icon))
                THEN <<SetCursorVisible(TRUE),
                       SetCursorIcon(Unwrap(translate_cursor(cursor_icon)))>>
                ELSE <<SetCursorVisible(FALSE)>> ]

ForgetCursorIcon(s) ==
    [ state |-> [s EXCEPT !.current_cursor_icon = None], calls |-> << >> ]

\* State::set_cursor_icon: the state afterwards and the calls made.
set_cursor_icon_NoEarlyReturn(s, cursor_icon) ==
    IF IsSome(s.pointer_pos_in_points) THEN ApplyCursorIcon(s, cursor_icon)
                                       ELSE ForgetCursorIcon(s)

set_cursor_icon_IgnoresPointer(s, cursor_icon) ==
    IF s.current_cursor_icon = Some(cursor_icon)
    THEN [state |-> s, calls |-> << >>]
    ELSE ApplyCursorIcon(s, cursor_icon)

set_cursor_icon(s, cursor_icon) ==
    IF s.current_cursor_icon = Some(cursor_icon)
    THEN [state |-> s, calls |-> << >>]
    ELSE LET is_pointer_in_window == IsSome(s.pointer_pos_in_points)
         IN IF is_pointer_in_window THEN ApplyCursorIcon(s, cursor_icon)
                                    ELSE ForgetCursorIcon(s)

\* State::handle_platform_output: the state afterwards and the calls made.
handle_platform_output(s, ctx, platform_output) ==
    LET scaled == [s EXCEPT !.current_pixels_per_point = ctx.pixels_per_point]
        cursor == set_cursor_icon(scaled, platform_output.cursor_icon)
    IN [ state |-> IF platform_output.copied_text # << >>
                   THEN [cursor.state EXCEPT !.clipboard = Some(platform_output.copied_text)]
                   ELSE cursor.state,
         calls |-> cursor.calls
                     \o (IF IsSome(platform_output.open_url)
                         THEN <<OpenUrlInBrowser(Unwrap(platform_output.open_url))>>
                         ELSE << >>)
                     \o (IF IsSome(platform_output.text_cursor_pos)
                         THEN <<SetImePosition(Unwrap(platform_output.text_cursor_pos))>>
                         ELSE << >>) ]

\* The icons the GUI asks for.
RequestedIcons == {"Default", "PointingHand", "None"}

\* egui::PlatformOutput::default()
DefaultPlatformOutput ==
    [ cursor_icon |-> "Default", open_url |-> None, copied_text |-> << >>,
      text_cursor_pos |-> None ]

\* egui::PlatformOutput: each icon asked for with nothing else to do, and
\* the default icon with a link to open, a text to copy or an IME position.
PlatformOutputs ==
    { [DefaultPlatformOutput EXCEPT !.cursor_icon = icon] : icon \in RequestedIcons }
        \cup { [DefaultPlatformOutput EXCEPT !.open_url = Some("https://egui.rs")],
               [DefaultPlatformOutput EXCEPT !.copied_text = <<99, 111, 112, 121>>],
               [DefaultPlatformOutput EXCEPT !.text_cursor_pos = Some(<<3, 5>>)] }

\* Contexts that differ in the scale the GUI has chosen.
ScaleContexts ==
    { [DefaultContext EXCEPT !.pixels_per_point = p] : p \in ScaleFactors }

\* State::handle_platform_output(window, egui_ctx, platform_output)
HandlePlatformOutput(platform_output) ==
    /\ LET r == handle_platform_output(state, egui_ctx, platform_output)
       IN /\ state' = r.state
          /\ native_calls' = r.calls
    /\ pre' = Snapshot(state)
    /\ native_event' = [type |-> "PlatformOutput", platform_output |-> platform_output]
    /\ response' = None
    /\ UNCHANGED <<touches_down, composition_open, synthetic_touch_open, hostVars, diffVars>>

\* The touches that move the pointer in and out of the window: one finger,
\* one place, no force.
CursorTouches ==
    { touch \in Touches :
          touch.id = 1 /\ touch.location = <<4, 8>> /\ touch.force = None }

\* The pointer enters and leaves the window, by mouse or by touch, while
\* frames hand over their platform output.
NextCursor ==
    \/ \E position \in PixelPositions : OnCursorMoved(position)
    \/ OnCursorLeft
    \/ \E touch \in CursorTouches : OnTouch(touch)
    \/ \E platform_output \in PlatformOutputs : HandlePlatformOutput(platform_output)
    \/ TakeEguiInput
    \/ \E ctx \in ScaleContexts : EguiRun(ctx)

SpecCursor == InitInput /\ [][NextCursor]_vars

\* ------------------------------------------------------------------------
\* WindowEvent::MouseWheel

\* let points_per_scroll_line = 50.0
points_per_scroll_line == 50

\* The divisor of `delta.y / 200.0` in the zoom factor.
zoom_divisor == 200

\* winit::event::MouseScrollDelta: lines of a wheel, or pixels of a touchpad
\* (even, so that the division by every scale factor is exact).
MouseScrollDeltas ==
    [kind : {"LineDelta"}, x : {0, 1}, y : {-1, 0, 2}]
        \cup [kind : {"PixelDelta"}, x : {0, 8}, y : {-120, 0, 120}]

\* f32::exp of the quotient num / den, kept as the quotient it is taken of.
exp(num, den) == [exp_of |-> <<num, den>>]

\* egui::Event::MouseWheel
MouseWheel(unit, delta, modifiers) ==
    [type |-> "MouseWheel", unit |-> unit, delta |-> delta, modifiers |-> modifiers]

\* egui::Event::Zoom
Zoom(factor) == [type |-> "Zoom", factor |-> factor]

\* egui::Event::Scroll
Scroll(delta) == [type |-> "Scroll", delta |-> delta]

\* The first block of on_mouse_wheel: the raw event.
RawMouseWheel_AlwaysPoints(s, delta) ==
    MouseWheel("Point", ToPoints(s, <<delta.x, delta.y>>), s.modifiers)

RawMouseWheel(s, delta) ==
    IF delta.kind = "LineDelta"
    THEN MouseWheel("Line", <<delta.x, delta.y>>, s.modifiers)
    ELSE MouseWheel("Point", ToPoints(s, <<delta.x, delta.y>>), s.modifiers)

\* The second `let delta`: the delta in points.
DeltaInPoints(s, delta) ==
    IF delta.kind = "LineDelta"
    THEN <<delta.x * points_per_scroll_line, delta.y * points_per_scroll_line>>
    ELSE ToPoints(s, <<delta.x, delta.y>>)

\* The closing if / else if / else: a zoom or a scroll by `delta` points.
ZoomOrScroll_ShiftFirst(modifiers, delta) ==
    IF modifiers.shift THEN Scroll(<<delta[1] + delta[2], 0>>)
    ELSE IF modifiers.ctrl \/ modifiers.command THEN Zoom(exp(delta[2], zoom_divisor))
    ELSE Scroll(delta)

ZoomOrScroll_ShiftDropsVertical(modifiers, delta) ==
    IF modifiers.ctrl \/ modifiers.command THEN Zoom(exp(delta[2], zoom_divisor))
    ELSE IF modifiers.shift THEN Scroll(<<delta[1], 0>>)
    ELSE Scroll(delta)

ZoomOrScroll(modifiers, delta) ==
    IF modifiers.ctrl \/ modifiers.command THEN Zoom(exp(delta[2], zoom_divisor))
    ELSE IF modifiers.shift THEN Scroll(<<delta[1] + delta[2], 0>>)
    ELSE Scroll(delta)

on_mouse_wheel(s, delta) ==
    Push(Push(s, RawMouseWheel(s, delta)),
         ZoomOrScroll(s.modifiers, DeltaInPoints(s, delta)))

\* Contexts that differ in whether the GUI wants the pointer.
PointerContexts ==
    { [DefaultContext EXCEPT !.wants_pointer_input = w] : w \in BOOLEAN }

\* on_event(WindowEvent::MouseWheel { delta })
OnMouseWheel(delta) ==
    /\ Accepting
    /\ state' = on_mouse_wheel(state, delta)
    /\ pre' = Snapshot(state)
    /\ native_event' = [type |-> "MouseWheel", delta |-> delta]
    /\ response' = Some(EventResponse(TRUE, egui_ctx.wants_pointer_input))
    /\ native_calls' = << >>
    /\ UNCHANGED <<touches_down, composition_open, synthetic_touch_open, hostVars, diffVars>>

\* The wheel turns while modifiers and the scale factor change.
NextWheel ==
    \/ \E delta \in MouseScrollDeltas : OnMouseWheel(delta)
    \/ \E modifiers_state \in ModifiersStates : OnModifiersChanged(modifiers_state)
    \/ \E scale_factor \in ScaleFactors : OnScaleFactorChanged(scale_factor)
    \/ TakeEguiInput
    \/ \E ctx \in PointerContexts : EguiRun(ctx)

SpecWheel == InitAnyBuild /\ [][NextWheel]_vars

\* ------------------------------------------------------------------------
\* process_viewport_commands

\* How many commands one batch holds at most.
MaxBatch == 2

\* One call on the window: its name, its argument and whether the native
\* layer answered Ok (calls that return nothing are always ok).
WindowCall(name, arg, ok) == [call |-> name, arg |-> arg, ok |-> ok]

\* log::error!(..)
LogError(message) == [call |-> "log::error", arg |-> message, ok |-> TRUE]

\* The panic of `.expect("Invalid ICON data!")`.
Panic(message) == [call |-> "panic", arg |-> message, ok |-> FALSE]

\* winit::window::Icon::from_rgba: Ok only for four bytes per pixel.
from_rgba(bytes, width, height) ==
    Len(bytes) % 4 = 0 /\ Len(bytes) \div 4 = width * height

\* The ResizeDirection the Resize arm picks.
resize_direction(top, bottom, right, left) ==
    CASE <<top, bottom, right, left>> = <<TRUE, FALSE, FALSE, FALSE>> -> "North"
      [] <<top, bottom, right, left>> = <<FALSE, TRUE, FALSE, FALSE>> -> "South"
      [] <<top, bottom, right, left>> = <<FALSE, FALSE, FALSE, TRUE>> -> "West"
      [] <<top, bottom, right, left>> = <<TRUE, FALSE, TRUE, FALSE>> -> "NorthEast"
      [] <<top, bottom, right, left>> = <<FALSE, TRUE, TRUE, FALSE>> -> "SouthEast"
      [] <<top, bottom, right, left>> = <<TRUE, FALSE, FALSE, TRUE>> -> "NorthWest"
      [] <<top, bottom, right, left>> = <<FALSE, TRUE, FALSE, TRUE>> -> "SouthWest"
      [] OTHER -> "East"

Max_KeepsZero(a, b) == a

\* u32::max
Max(a, b) == IF a >= b THEN a ELSE b

\* Names for the small integers of WindowLevel, IMEPurpose, CursorGrab,
\* RequestUserAttention and SetTheme.
OneTwoElse(o, one, two, else) ==
    IF o = 1 THEN one ELSE IF o = 2 THEN two ELSE else

\* The WindowButtons of EnableButtons.
enabled_buttons(v) ==
    (IF v.close THEN {"CLOSE"} ELSE {})
        \cup (IF v.minimized THEN {"MINIMIZE"} ELSE {})
        \cup (IF v.maximize THEN {"MAXIMIZE"} ELSE {})

\* ViewportCommand::Drag
ApplyDrag_Unchecked(viewport_id, focused, ok) ==
    <<WindowCall("drag_window", << >>, ok)>>

ApplyDrag(viewport_id, focused, ok) ==
    IF IsSome(focused) /\ Unwrap(focused) = viewport_id
    THEN <<WindowCall("drag_window", << >>, ok)>>
    ELSE << >>

\* ViewportCommand::WindowIcon
ApplyWindowIcon_SkipsInvalid(icon) ==
    IF ~IsSome(icon) THEN <<WindowCall("set_window_icon", None, TRUE)>>
    ELSE IF from_rgba(Unwrap(icon)[1], Unwrap(icon)[2], Unwrap(icon)[3])
         THEN <<WindowCall("set_window_icon", icon, TRUE)>>
         ELSE << >>

ApplyWindowIcon(icon) ==
    IF ~IsSome(icon) THEN <<WindowCall("set_window_icon", None, TRUE)>>
    ELSE IF from_rgba(Unwrap(icon)[1], Unwrap(icon)[2], Unwrap(icon)[3])
         THEN <<WindowCall("set_window_icon", icon, TRUE)>>
         ELSE <<Panic("Invalid ICON data!")>>

\* A call whose Err is logged.
ApplyLogged_StopsOnError(call, message) ==
    IF call.ok THEN <<call>> ELSE <<call, Panic(message)>>

ApplyLogged(call, message) ==
    IF call.ok THEN <<call>> ELSE <<call, LogError(message)>>

\* One iteration of `for command in commands`: the calls, log lines and
\* panic of one command; `ok` is what the native layer answers to a call
\* that can fail.
apply_command(command, viewport_id, focused, ok) ==
    LET v == command.val
    IN CASE command.cmd = "Drag" -> ApplyDrag(viewport_id, focused, ok)
         [] command.cmd = "InnerSize" ->
                <<WindowCall("set_inner_size", <<Max(v[1], 1), Max(v[2], 1)>>, TRUE)>>
         [] command.cmd = "Resize" ->
                <<WindowCall("drag_resize_window",
                             resize_direction(v[1], v[2], v[3], v[4]), ok)>>
         [] command.cmd = "Title" -> <<WindowCall("set_title", v, TRUE)>>
         [] command.cmd = "Transparent" -> <<WindowCall("set_transparent", v, TRUE)>>
         [] command.cmd = "Visible" -> <<WindowCall("set_visible", v, TRUE)>>
         [] command.cmd = "OuterPosition" -> <<WindowCall("set_outer_position", v, TRUE)>>
         [] command.cmd = "MinInnerSize" -> <<WindowCall("set_min_inner_size", v, TRUE)>>
         [] command.cmd = "MaxInnerSize" -> <<WindowCall("set_max_inner_size", v, TRUE)>>
         [] command.cmd = "ResizeIncrements" ->
                <<WindowCall("set_resize_increments", v, TRUE)>>
         [] command.cmd = "Resizable" -> <<WindowCall("set_resizable", v, TRUE)>>
         [] command.cmd = "EnableButtons" ->
                <<WindowCall("set_enabled_buttons", enabled_buttons(v), TRUE)>>
         [] command.cmd = "Minimized" -> <<WindowCall("set_minimized", v, TRUE)>>
         [] command.cmd = "Maximized" -> <<WindowCall("set_maximized", v, TRUE)>>
         [] command.cmd = "Fullscreen" ->
                <<WindowCall("set_fullscreen",
                             IF v THEN Some("Borderless(None)") ELSE None, TRUE)>>
         [] command.cmd = "Decorations" -> <<WindowCall("set_decorations", v, TRUE)>>
         [] command.cmd = "WindowLevel" ->
                <<WindowCall("set_window_level",
                             OneTwoElse(v, "AlwaysOnBottom", "AlwaysOnTop", "Normal"),
                             TRUE)>>
         [] command.cmd = "WindowIcon" -> ApplyWindowIcon(v)
         [] command.cmd = "IMEPosition" -> <<WindowCall("set_ime_position", v, TRUE)>>
         [] command.cmd = "IMEAllowed" -> <<WindowCall("set_ime_allowed", v, TRUE)>>
         [] command.cmd = "IMEPurpose" ->
                <<WindowCall("set_ime_purpose",
                             OneTwoElse(v, "Password", "Terminal", "Normal"), TRUE)>>
         [] command.cmd = "RequestUserAttention" ->
                <<WindowCall("request_user_attention",
                             IF IsSome(v)
                             THEN Some(IF Unwrap(v) = 1 THEN "Critical"
                                                        ELSE "Informational")
                             ELSE None,
                             TRUE)>>
         [] command.cmd = "SetTheme" ->
                <<WindowCall("set_theme",
                             IF IsSome(v) THEN Some(IF Unwrap(v) = 1 THEN "Dark" ELSE "Light")
                                          ELSE None,
                             TRUE)>>
         [] command.cmd = "ContentProtected" ->
                <<WindowCall("set_content_protected", v, TRUE)>>
         [] command.cmd = "CursorPosition" ->
                ApplyLogged(WindowCall("set_cursor_position", v, ok), "{err}")
         [] command.cmd = "CursorGrab" ->
                ApplyLogged(WindowCall("set_cursor_grab",
                                       OneTwoElse(v, "Confined", "Locked", "None"), ok),
                            "{err}")
         [] command.cmd = "CursorVisible" -> <<WindowCall("set_cursor_visible", v, TRUE)>>
         [] command.cmd = "CursorHitTest" ->
                ApplyLogged(WindowCall("set_cursor_hittest", v, ok),
                            "Setting viewport CursorHitTest: {err}")

\* Whether the function has panicked while making `calls`.
Panicked(calls) == calls # << >> /\ calls[Len(calls)].call = "panic"

\* process_viewport_commands: the commands from the i-th on, after `calls`
\* have been made; `refused` holds the positions of the commands whose native
\* call answers Err.
RECURSIVE ProcessFrom(_, _, _, _, _, _)
ProcessFrom(batch, i, viewport_id, focused, refused, calls) ==
    IF i > Len(batch) \/ Panicked(calls) THEN calls
    ELSE ProcessFrom(batch, i + 1, viewport_id, focused, refused,
                     calls \o apply_command(batch[i], viewport_id, focused,
                                            i \notin refused))

process_viewport_commands(batch, viewport_id, focused, refused) ==
    ProcessFrom(batch, 1, viewport_id, focused, refused, << >>)

\* The commands the claims speak of: the drag, the calls that can fail, and
\* window icons that are absent, well formed and malformed.
ClaimCommands ==
    { Cmd("Drag", << >>),
      Cmd("Resize", <<TRUE, FALSE, TRUE, FALSE>>),
      Cmd("CursorPosition", <<5, 6>>),
      Cmd("CursorGrab", 1),
      Cmd("CursorHitTest", TRUE),
      Cmd("WindowIcon", None),
      Cmd("WindowIcon", Some(<<<<255, 0, 0, 255>>, 1, 1>>)),
      Cmd("WindowIcon", Some(<<<<255, 0, 0>>, 1, 1>>)) }

\* One command of every other variant.
OtherCommands ==
    { Cmd("InnerSize", <<0, 600>>), Cmd("InnerSize", <<800, 0>>),
      Cmd("InnerSize", <<0, 0>>), Cmd("InnerSize", <<800, 600>>), Cmd("Title", "X"), Cmd("Transparent", TRUE),
      Cmd("Visible", FALSE), Cmd("OuterPosition", PosA),
      Cmd("MinInnerSize", Some(Size800)), Cmd("MaxInnerSize", None),
      Cmd("ResizeIncrements", Some(<<2, 2>>)), Cmd("Resizable", FALSE),
      Cmd("EnableButtons", [close |-> TRUE, minimized |-> FALSE, maximize |-> TRUE]),
      Cmd("Minimized", TRUE), Cmd("Maximized", FALSE), Cmd("Fullscreen", TRUE),
      Cmd("Decorations", FALSE), Cmd("WindowLevel", 2), Cmd("IMEPosition", <<3, 5>>),
      Cmd("IMEAllowed", TRUE), Cmd("IMEPurpose", 1),
      Cmd("RequestUserAttention", Some(1)), Cmd("SetTheme", Some(2)),
      Cmd("ContentProtected", TRUE), Cmd("CursorVisible", FALSE) }

\* Batches of at most MaxBatch commands, at most one of them from
\* OtherCommands.
Batches ==
    UNION { { b \in [1..n -> ClaimCommands \cup OtherCommands] :
                  Cardinality({ i \in 1..n : b[i] \in OtherCommands }) <= 1 }
            : n \in 0..MaxBatch }

ViewportIds == {"ROOT", "child"}

\* A batch of commands waits for the window of one viewport.
InitCommands ==
    /\ InputIdle
    /\ commands \in Batches
    /\ last = DefaultBuilder
    /\ new = DefaultBuilder
    /\ recreate_window = FALSE
    /\ prev = DefaultBuilder
    /\ frames = 0

\* process_viewport_commands(commands, viewport_id, focused, window)
ProcessViewportCommands(viewport_id, focused, refused) ==
    /\ native_event = NoEvent
    /\ native_calls' = process_viewport_commands(commands, viewport_id, focused, refused)
    /\ native_event' = [type |-> "ViewportCommands", commands |-> commands,
                        viewport_id |-> viewport_id, focused |-> focused,
                        refused |-> refused]
    /\ commands' = << >>
    /\ UNCHANGED <<state, pre, touches_down, response, composition_open, synthetic_touch_open, hostVars,
                   last, new, recreate_window, prev, frames>>

NextCommands ==
    \E viewport_id \in ViewportIds,
       focused \in {None} \cup { Some(id) : id \in ViewportIds },
       refused \in SUBSET (1..Len(commands)) :
        ProcessViewportCommands(viewport_id, focused, refused)

SpecCommands == InitCommands /\ [][NextCommands]_vars

\* ------------------------------------------------------------------------
\* The keyboard: translate_virtual_key_code, the clipboard shortcuts and
\* on_keyboard_input.

\* winit::event::VirtualKeyCode values whose egui::Key has another name.
RenamedKeys ==
    << <<"Down", "ArrowDown">>, <<"Left", "ArrowLeft">>, <<"Right", "ArrowRight">>,
       <<"Up", "ArrowUp">>, <<"Back", "Backspace">>, <<"Return", "Enter">>,
       <<"Equals", "PlusEquals">>,
       <<"Key0", "Num0">>, <<"Numpad0", "Num0">>, <<"Key1", "Num1">>, <<"Numpad1", "Num1">>,
       <<"Key2", "Num2">>, <<"Numpad2", "Num2">>, <<"Key3", "Num3">>, <<"Numpad3", "Num3">>,
       <<"Key4", "Num4">>, <<"Numpad4", "Num4">>, <<"Key5", "Num5">>, <<"Numpad5", "Num5">>,
       <<"Key6", "Num6">>, <<"Numpad6", "Num6">>, <<"Key7", "Num7">>, <<"Numpad7", "Num7">>,
       <<"Key8", "Num8">>, <<"Numpad8", "Num8">>, <<"Key9", "Num9">>, <<"Numpad9", "Num9">> >>

\* VirtualKeyCode values that keep their name as an egui::Key.
SameNameKeys ==
    { "Escape", "Tab", "Space", "Insert", "Delete", "Home", "End", "PageUp", "PageDown",
      "Minus",
      "A", "B", "C", "D", "E", "F", "G", "H", "I", "J", "K", "L", "M", "N", "O", "P", "Q",
      "R", "S", "T", "U", "V", "W", "X", "Y", "Z",
      "F1", "F2", "F3", "F4", "F5", "F6", "F7", "F8", "F9", "F10", "F11", "F12", "F13",
      "F14", "F15", "F16", "F17", "F18", "F19", "F20" }

\* Some of the VirtualKeyCode values that the match falls through on.
OtherKeys ==
    { "F21", "F24", "LShift", "RShift", "LControl", "LAlt", "LWin", "Capital", "Numlock",
      "Snapshot", "Scroll", "Pause", "Apostrophe", "Comma", "Period", "Slash", "Semicolon",
      "NumpadAdd", "NumpadEnter", "NumpadEquals", "Plus", "Copy", "Paste", "Cut",
      "VolumeUp", "Caret" }

RenamedKeyCodes == { RenamedKeys[i][1] : i \in DOMAIN RenamedKeys }

VirtualKeyCodes == RenamedKeyCodes \cup SameNameKeys \cup OtherKeys

translate_virtual_key_code_KeepsUnlisted(key) ==
    IF key \in RenamedKeyCodes
    THEN LET i == CHOOSE j \in DOMAIN RenamedKeys : RenamedKeys[j][1] = key
         IN Some(RenamedKeys[i][2])
    ELSE Some(key)

translate_virtual_key_code(key) ==
    IF key \in SameNameKeys THEN Some(key)
    ELSE IF key \in RenamedKeyCodes
    THEN LET i == CHOOSE j \in DOMAIN RenamedKeys : RenamedKeys[j][1] = key
         IN Some(RenamedKeys[i][2])
    ELSE None

is_cut_command(modifiers, os, keycode) ==
    \/ modifiers.command /\ keycode = "X"
    \/ os = "windows" /\ modifiers.shift /\ keycode = "Delete"

is_copy_command(modifiers, os, keycode) ==
    \/ modifiers.command /\ keycode = "C"
    \/ os = "windows" /\ modifiers.ctrl /\ keycode = "Insert"

is_paste_command(modifiers, os, keycode) ==
    \/ modifiers.command /\ keycode = "V"
    \/ os = "windows" /\ modifiers.shift /\ keycode = "Insert"

\* egui::Event::Cut, Copy, Paste and Key
Cut == [type |-> "Cut"]

Copy == [type |-> "Copy"]

Paste(contents) == [type |-> "Paste", contents |-> contents]

Key(key, pressed, modifiers) ==
    [type |-> "Key", key |-> key, pressed |-> pressed, repeat |-> FALSE,
     modifiers |-> modifiers]

\* contents.replace("\r\n", "\n") on a string of code points
RECURSIVE replace_crlf(_)
replace_crlf(contents) ==
    IF Len(contents) < 2 THEN contents
    ELSE IF contents[1] = 13 /\ contents[2] = 10
    THEN <<10>> \o replace_crlf(SubSeq(contents, 3, Len(contents)))
    ELSE <<contents[1]>> \o replace_crlf(Tail(contents))

\* The is_paste_command branch: the clipboard's text, if it has any.
PasteFromClipboard(s) ==
    IF IsSome(s.clipboard)
    THEN LET contents == replace_crlf(Unwrap(s.clipboard))
         IN IF contents # << >> THEN Push(s, Paste(contents)) ELSE s
    ELSE s

\* The `if pressed` block of on_keyboard_input.
ClipboardShortcut_OnRelease(s, os, keycode, pressed) ==
    IF is_cut_command(s.modifiers, os, keycode) THEN Push(s, Cut)
    ELSE IF is_copy_command(s.modifiers, os, keycode) THEN Push(s, Copy)
    ELSE IF is_paste_command(s.modifiers, os, keycode) THEN PasteFromClipboard(s)
    ELSE s

ClipboardShortcut(s, os, keycode, pressed) ==
    IF pressed
    THEN IF is_cut_command(s.modifiers, os, keycode) THEN Push(s, Cut)
         ELSE IF is_copy_command(s.modifiers, os, keycode) THEN Push(s, Copy)
         ELSE IF is_paste_command(s.modifiers, os, keycode) THEN PasteFromClipboard(s)
         ELSE s
    ELSE s

on_keyboard_input(s, os, input) ==
    IF IsSome(input.virtual_keycode)
    THEN LET keycode == Unwrap(input.virtual_keycode)
             pressed == (input.state = "Pressed")
             s1 == ClipboardShortcut(s, os, keycode, pressed)
             key == translate_virtual_key_code(keycode)
         IN IF IsSome(key) THEN Push(s1, Key(Unwrap(key), pressed, s1.modifiers)) ELSE s1
    ELSE s

\* winit::event::KeyboardInput values over a set of key codes.
KeyboardInputs(keycodes) ==
    [state : {"Pressed", "Released"},
     virtual_keycode : {None} \cup {Some(k) : k \in keycodes}]

\* The KeyboardInput arm's `consumed`.
KeyboardConsumed_NoTab(ctx, input) == ctx.wants_keyboard_input

KeyboardConsumed(ctx, input) ==
    ctx.wants_keyboard_input \/ input.virtual_keycode = Some("Tab")

\* on_event(WindowEvent::KeyboardInput { input })
OnKeyboardInput(input) ==
    /\ Accepting
    /\ state' = on_keyboard_input(state, target_os, input)
    /\ pre' = Snapshot(state)
    /\ native_event' = [type |-> "KeyboardInput", input |-> input]
    /\ response' = Some(EventResponse(TRUE, KeyboardConsumed(egui_ctx, input)))
    /\ native_calls' = << >>
    /\ UNCHANGED <<touches_down, composition_open, synthetic_touch_open, hostVars, diffVars>>

\* Texts on the system clipboard, as code points: "", "\r\n", "a\r\nb", "hi".
ClipboardTexts == { << >>, <<13, 10>>, <<97, 13, 10, 98>>, <<104, 105>> }

\* Another program changes the system clipboard, or makes it unreadable:
\* the next self.clipboard.get() returns `contents`.
ClipboardChanged(contents) ==
    /\ contents # state.clipboard
    /\ state' = [state EXCEPT !.clipboard = contents]
    /\ pre' = Snapshot(state)
    /\ native_event' = NoEvent
    /\ response' = None
    /\ native_calls' = << >>
    /\ UNCHANGED <<touches_down, composition_open, synthetic_touch_open, hostVars, diffVars>>

\* Modifier states of the keyboard specification: nothing, Ctrl, Shift,
\* Ctrl+Shift and the logo key.
KeyboardModifiers ==
    { m \in ModifiersStates : ~m.alt /\ (m.logo => ~m.ctrl /\ ~m.shift) }

\* Key codes of the keyboard specification: the shortcut keys, Tab, a letter
\* and an unlisted code.
ShortcutKeys == {"X", "C", "V", "Insert", "Delete", "Tab", "LShift"}

NextKeyboard ==
    \/ \E input \in KeyboardInputs(ShortcutKeys) : OnKeyboardInput(input)
    \/ \E modifiers_state \in KeyboardModifiers : OnModifiersChanged(modifiers_state)
    \/ \E contents \in {None} \cup {Some(text) : text \in ClipboardTexts} :
           ClipboardChanged(contents)
    \/ TakeEguiInput
    \/ \E ctx \in KeyboardContexts : EguiRun(ctx)

SpecKeyboard == InitAnyBuild /\ [][NextKeyboard]_vars

\* Every key code, pressed and released, on one build.
NextKeys ==
    \/ \E input \in KeyboardInputs(VirtualKeyCodes) : OnKeyboardInput(input)
    \/ TakeEguiInput

SpecKeys == InitInput /\ [][NextKeys]_vars

\* ------------------------------------------------------------------------
\* The remaining arms of on_event: focus, files, close requests, the events
\* that only ask for a repaint, the ignored events and TouchpadMagnify.

\* egui::Event::WindowFocused
WindowFocused(focused) == [type |-> "WindowFocused", focused |-> focused]

\* egui::Event::WindowEvent(egui::WindowEvent::CloseRequested)
CloseRequestedEvent == [type |-> "WindowEvent", event |-> "CloseRequested"]

\* egui::HoveredFile and egui::DroppedFile, the other fields default
HoveredFile(path) == [path |-> Some(path)]

DroppedFile(path) == [path |-> Some(path)]

Paths == {"a.png"}

OnFocused_KeepsModifiers(focused) ==
    /\ Accepting
    /\ state' = Push([state EXCEPT !.focused = focused], WindowFocused(focused))
    /\ pre' = Snapshot(state)
    /\ native_event' = [type |-> "Focused", focused |-> focused]
    /\ response' = Some(EventResponse(TRUE, FALSE))
    /\ native_calls' = << >>
    /\ UNCHANGED <<touches_down, composition_open, synthetic_touch_open, hostVars, diffVars>>

\* on_event(WindowEvent::Focused(focused))
OnFocused(focused) ==
    /\ Accepting
    /\ state' = Push([state EXCEPT !.focused = focused, !.modifiers = DefaultModifiers],
                     WindowFocused(focused))
    /\ pre' = Snapshot(state)
    /\ native_event' = [type |-> "Focused", focused |-> focused]
    /\ response' = Some(EventResponse(TRUE, FALSE))
    /\ native_calls' = << >>
    /\ UNCHANGED <<touches_down, composition_open, synthetic_touch_open, hostVars, diffVars>>

\* on_event(WindowEvent::HoveredFile(path)); a file is hovered once until the
\* hover is cancelled or the file dropped.
OnHoveredFile(path) ==
    /\ state.hovered_files = << >>
    /\ state' = [state EXCEPT !.hovered_files = Append(@, HoveredFile(path))]
    /\ pre' = Snapshot(state)
    /\ native_event' = [type |-> "HoveredFile", path |-> path]
    /\ response' = Some(EventResponse(TRUE, FALSE))
    /\ native_calls' = << >>
    /\ UNCHANGED <<touches_down, composition_open, synthetic_touch_open, hostVars, diffVars>>

\* on_event(WindowEvent::HoveredFileCancelled)
OnHoveredFileCancelled ==
    /\ state.hovered_files # << >>
    /\ state' = [state EXCEPT !.hovered_files = << >>]
    /\ pre' = Snapshot(state)
    /\ native_event' = [type |-> "HoveredFileCancelled"]
    /\ response' = Some(EventResponse(TRUE, FALSE))
    /\ native_calls' = << >>
    /\ UNCHANGED <<touches_down, composition_open, synthetic_touch_open, hostVars, diffVars>>

\* on_event(WindowEvent::DroppedFile(path)), with room for the file.
OnDroppedFile(path) ==
    /\ Len(state.dropped_files) <= MaxPending
    /\ state' = [state EXCEPT !.hovered_files = << >>,
                              !.dropped_files = Append(@, DroppedFile(path))]
    /\ pre' = Snapshot(state)
    /\ native_event' = [type |-> "DroppedFile", path |-> path]
    /\ response' = Some(EventResponse(TRUE, FALSE))
    /\ native_calls' = << >>
    /\ UNCHANGED <<touches_down, composition_open, synthetic_touch_open, hostVars, diffVars>>

OnCloseRequested_AsksTheGui ==
    /\ Accepting
    /\ state' = Push(state, CloseRequestedEvent)
    /\ pre' = Snapshot(state)
    /\ native_event' = [type |-> "CloseRequested"]
    /\ response' = Some(EventResponse(TRUE, egui_ctx.wants_pointer_input))
    /\ native_calls' = << >>
    /\ UNCHANGED <<touches_down, composition_open, synthetic_touch_open, hostVars, diffVars>>

\* on_event(WindowEvent::CloseRequested)
OnCloseRequested ==
    /\ Accepting
    /\ state' = Push(state, CloseRequestedEvent)
    /\ pre' = Snapshot(state)
    /\ native_event' = [type |-> "CloseRequested"]
    /\ response' = Some(EventResponse(TRUE, TRUE))
    /\ native_calls' = << >>
    /\ UNCHANGED <<touches_down, composition_open, synthetic_touch_open, hostVars, diffVars>>

\* "Things that may require repaint"
RepaintOnlyEvents ==
    {"CursorEntered", "Destroyed", "Occluded", "Resized", "Moved", "ThemeChanged",
     "TouchpadPressure"}

\* "Things we completely ignore"
IgnoredEvents == {"AxisMotion", "SmartMagnify", "TouchpadRotate"}

\* on_event for an event of RepaintOnlyEvents
OnRepaintOnly(type) ==
    /\ pre' = Snapshot(state)
    /\ native_event' = [type |-> type]
    /\ response' = Some(EventResponse(TRUE, FALSE))
    /\ native_calls' = << >>
    /\ UNCHANGED <<state, touches_down, composition_open, synthetic_touch_open, hostVars, diffVars>>

\* on_event for an event of IgnoredEvents
OnIgnored(type) ==
    /\ pre' = Snapshot(state)
    /\ native_event' = [type |-> type]
    /\ response' = Some(EventResponse(FALSE, FALSE))
    /\ native_calls' = << >>
    /\ UNCHANGED <<state, touches_down, composition_open, synthetic_touch_open, hostVars, diffVars>>

\* on_event(WindowEvent::TouchpadMagnify { delta })
OnTouchpadMagnify(delta) ==
    /\ Accepting
    /\ state' = Push(state, Zoom(exp(delta, 1)))
    /\ pre' = Snapshot(state)
    /\ native_event' = [type |-> "TouchpadMagnify", delta |-> delta]
    /\ response' = Some(EventResponse(TRUE, egui_ctx.wants_pointer_input))
    /\ native_calls' = << >>
    /\ UNCHANGED <<touches_down, composition_open, synthetic_touch_open, hostVars, diffVars>>

\* ------------------------------------------------------------------------
\* Every arm of on_event, each with a few inputs, while frames take the
\* queue and change any of the GUI's three answers.

\* Contexts in which at most one of the three answers on_event reads is yes.
AnswerContexts ==
    { DefaultContext,
      [DefaultContext EXCEPT !.wants_pointer_input = TRUE],
      [DefaultContext EXCEPT !.is_using_pointer = TRUE],
      [DefaultContext EXCEPT !.wants_keyboard_input = TRUE] }

\* One finger of one device, at one place.
EventTouches ==
    { t \in Touches : t.id = 1 /\ t.location = <<4, 8>> /\ t.force = None }

\* Nothing held, and Ctrl held.
EventModifiers == { m \in ModifiersStates : ~m.alt /\ ~m.shift /\ ~m.logo }

EventKeys == {"Tab", "A", "LShift"}

EventChars == {9, 97}

NextEvents ==
    \/ \E touch \in EventTouches : OnTouch(touch)
    \/ \E element_state \in {"Pressed", "Released"}, button \in {<<"Left">>, <<"Other", 3>>} :
           OnMouseInput(element_state, button)
    \/ OnCursorMoved(<<4, 8>>)
    \/ OnCursorLeft
    \/ OnScaleFactorChanged(1)
    \/ OnMouseWheel([kind |-> "LineDelta", x |-> 0, y |-> 2])
    \/ \E ch \in EventChars : OnReceivedCharacter(ch)
    \/ OnIme([kind |-> "Commit", text |-> "ni"])
    \/ \E input \in KeyboardInputs(EventKeys) : OnKeyboardInput(input)
    \/ \E modifiers_state \in EventModifiers : OnModifiersChanged(modifiers_state)
    \/ OnFocused(FALSE)
    \/ \E path \in Paths : OnHoveredFile(path)
    \/ OnHoveredFileCancelled
    \/ \E path \in Paths : OnDroppedFile(path)
    \/ OnCloseRequested
    \/ \E type \in {"CursorEntered", "Resized", "Moved"} : OnRepaintOnly(type)
    \/ OnIgnored("AxisMotion")
    \/ OnTouchpadMagnify(1)
    \/ TakeEguiInput
    \/ \E ctx \in AnswerContexts : EguiRun(ctx)

SpecEvents == InitInput /\ [][NextEvents]_vars

\* ------------------------------------------------------------------------
\* The mouse as a state machine, with and without touch simulation.

\* State::new of a build whose `simulate_touch_screen` literal is `simulate`:
\* false as shipped, true in a build made to debug touch support.
InitPointer ==
    /\ \E simulate \in BOOLEAN :
           state = [NewState EXCEPT !.simulate_touch_screen = simulate]
    /\ pre = Snapshot(NewState)
    /\ native_event = NoEvent
    /\ touches_down = {}
    /\ response = None
    /\ native_calls = << >>
    /\ target_os = "linux"
    /\ egui_ctx = DefaultContext
    /\ composition_open = FALSE
    /\ synthetic_touch_open = FALSE
    /\ last = DefaultBuilder
    /\ new = DefaultBuilder
    /\ commands = << >>
    /\ recreate_window = FALSE
    /\ prev = DefaultBuilder
    /\ frames = 0

PointerButtons == {<<"Left">>, <<"Right">>, <<"Other", 3>>}

NextPointer ==
    \/ \E position \in PixelPositions : OnCursorMoved(position)
    \/ \E element_state \in {"Pressed", "Released"}, button \in PointerButtons :
           OnMouseInput(element_state, button)
    \/ OnCursorLeft
    \/ \E modifiers_state \in EventModifiers : OnModifiersChanged(modifiers_state)
    \/ \E scale_factor \in ScaleFactors : OnScaleFactorChanged(scale_factor)
    \/ TakeEguiInput

SpecPointer == InitPointer /\ [][NextPointer]_vars

\* ------------------------------------------------------------------------
\* Focus changes among modifier changes, wheel turns and key strokes.

FocusKeys == {"C", "Delete", "A"}

NextFocus ==
    \/ \E focused \in BOOLEAN : OnFocused(focused)
    \/ \E modifiers_state \in KeyboardModifiers : OnModifiersChanged(modifiers_state)
    \/ \E y \in {-1, 2} : OnMouseWheel([kind |-> "LineDelta", x |-> 1, y |-> y])
    \/ \E input \in KeyboardInputs(FocusKeys) : OnKeyboardInput(input)
    \/ TakeEguiInput

SpecFocus == InitAnyBuild /\ [][NextFocus]_vars

\* ------------------------------------------------------------------------
\* gui_zoom: zoom_in, zoom_out, zoom_menu_buttons and zoom_with_keyboard.
\* An f32 zoom factor is NaN or a number, counted in hundredths.

\* Key presses a frame's input holds at most.
MaxShortcuts == 2

NaN == << >>
F32(hundredths) == <<hundredths>>
IsNaN(z) == z = NaN
Hundredths(z) == z[1]

MIN_ZOOM_FACTOR == F32(20)
MAX_ZOOM_FACTOR == F32(500)

\* zoom_factor += 0.1, zoom_factor -= 0.1
f32_add(z, tenths) == IF IsNaN(z) THEN NaN ELSE F32(Hundredths(z) + 10 * tenths)

\* The f32 comparisons: every comparison with NaN is false.
f32_lt(a, b) == ~IsNaN(a) /\ ~IsNaN(b) /\ Hundredths(a) < Hundredths(b)
f32_gt(a, b) == f32_lt(b, a)

clamp_NoMaximum(z, min, max) ==
    IF f32_lt(z, min) THEN min ELSE z

\* f32::clamp: NaN stays NaN.
clamp(z, min, max) ==
    IF f32_lt(z, min) THEN min ELSE IF f32_gt(z, max) THEN max ELSE z

\* (zoom_factor * 10.).round() / 10. of a clamped, hence positive, factor:
\* the results it can have.  The f32 of x.x5 +- 0.1 lies a little below or
\* above the half, so that either neighbouring tenth can come out.
round_tenths(z) ==
    IF IsNaN(z) THEN {NaN}
    ELSE IF Hundredths(z) % 10 = 5 THEN {F32(Hundredths(z) - 5), F32(Hundredths(z) + 5)}
    ELSE {F32(((Hundredths(z) + 5) \div 10) * 10)}

\* zoom_in(ctx): the factors it can set.
zoom_in(zoom_factor) ==
    round_tenths(clamp(f32_add(zoom_factor, 1), MIN_ZOOM_FACTOR, MAX_ZOOM_FACTOR))

\* zoom_out(ctx): the factors it can set.
zoom_out(zoom_factor) ==
    round_tenths(clamp(f32_add(zoom_factor, -1), MIN_ZOOM_FACTOR, MAX_ZOOM_FACTOR))

\* kb_shortcuts, and a key press they do not match.
Shortcut(command, key) == [command |-> command, key |-> key]
ZOOM_IN == Shortcut(TRUE, "PlusEquals")
ZOOM_OUT == Shortcut(TRUE, "Minus")
ZOOM_RESET == Shortcut(TRUE, "Num0")
PlainNum0 == Shortcut(FALSE, "Num0")

\* InputState::consume_shortcut: removes every press of the shortcut from
\* the frame's input and tells whether there was one.
consume_shortcut(events, shortcut) ==
    [ consumed |-> \E i \in DOMAIN events : events[i] = shortcut,
      events   |-> SelectSeq(events, LAMBDA e : e # shortcut) ]

zoom_with_keyboard_ResetLast(ctx) ==
    LET in == consume_shortcut(ctx.input_events, ZOOM_IN)
        out == consume_shortcut(in.events, ZOOM_OUT)
        reset == consume_shortcut(out.events, ZOOM_RESET)
    IN { [ctx EXCEPT !.input_events = reset.events,
                     !.zoom_factor = IF reset.consumed THEN F32(100) ELSE z2]
         : z2 \in UNION { IF out.consumed THEN zoom_out(z1) ELSE {z1}
                          : z1 \in IF in.consumed THEN zoom_in(ctx.zoom_factor)
                                                  ELSE {ctx.zoom_factor} } }

\* zoom_with_keyboard(ctx): the contexts it can leave.
zoom_with_keyboard(ctx) ==
    LET reset == consume_shortcut(ctx.input_events, ZOOM_RESET)
        in == consume_shortcut(reset.events, ZOOM_IN)
        out == consume_shortcut(in.events, ZOOM_OUT)
    IN IF reset.consumed
       THEN { [ctx EXCEPT !.input_events = reset.events, !.zoom_factor = F32(100)] }
       ELSE { [ctx EXCEPT !.input_events = out.events, !.zoom_factor = z2]
              : z2 \in UNION { IF out.consumed THEN zoom_out(z1) ELSE {z1}
                               : z1 \in IF in.consumed THEN zoom_in(ctx.zoom_factor)
                                                       ELSE {ctx.zoom_factor} } }

\* ui.add_enabled(enabled, Button::new(button))
AddEnabled(enabled, button) == [call |-> "add_enabled", enabled |-> enabled, button |-> button]

\* zoom_menu_buttons(ui) while the user presses `clicked` (a disabled button
\* is never clicked): the factors it can set, each with the buttons shown.
zoom_menu_buttons(zoom_factor, clicked) ==
    UNION { UNION { { [ zoom_factor |-> IF clicked = "Reset Zoom" /\ z2 # F32(100) THEN F32(100) ELSE z2,
                        calls |-> << AddEnabled(f32_lt(zoom_factor, MAX_ZOOM_FACTOR), "Zoom In"),
                                     AddEnabled(f32_gt(z1, MIN_ZOOM_FACTOR), "Zoom Out"),
                                     AddEnabled(z2 # F32(100), "Reset Zoom") >> ] }
                    : z2 \in IF clicked = "Zoom Out" /\ f32_gt(z1, MIN_ZOOM_FACTOR)
                             THEN zoom_out(z1) ELSE {z1} }
            : z1 \in IF clicked = "Zoom In" /\ f32_lt(zoom_factor, MAX_ZOOM_FACTOR)
                     THEN zoom_in(zoom_factor) ELSE {zoom_factor} }

\* What a zoom step leaves alone.
ZoomFrame ==
    UNCHANGED <<state, pre, touches_down, response, composition_open,
                synthetic_touch_open, target_os, diffVars>>

\* zoom_in(ctx)
ZoomIn ==
    /\ \E z \in zoom_in(egui_ctx.zoom_factor) : egui_ctx' = [egui_ctx EXCEPT !.zoom_factor = z]
    /\ native_event' = [type |-> "zoom_in", ctx |-> egui_ctx]
    /\ native_calls' = << >>
    /\ ZoomFrame

\* zoom_out(ctx)
ZoomOut ==
    /\ \E z \in zoom_out(egui_ctx.zoom_factor) : egui_ctx' = [egui_ctx EXCEPT !.zoom_factor = z]
    /\ native_event' = [type |-> "zoom_out", ctx |-> egui_ctx]
    /\ native_calls' = << >>
    /\ ZoomFrame

\* zoom_menu_buttons(ui)
ZoomMenuButtons(clicked) ==
    /\ \E r \in zoom_menu_buttons(egui_ctx.zoom_factor, clicked) :
           /\ egui_ctx' = [egui_ctx EXCEPT !.zoom_factor = r.zoom_factor]
           /\ native_calls' = r.calls
    /\ native_event' = [type |-> "zoom_menu_buttons", ctx |-> egui_ctx, clicked |-> clicked]
    /\ ZoomFrame

\* zoom_with_keyboard(ctx)
ZoomWithKeyboard ==
    /\ egui_ctx' \in zoom_with_keyboard(egui_ctx)
    /\ native_event' = [type |-> "zoom_with_keyboard", ctx |-> egui_ctx]
    /\ native_calls' = << >>
    /\ ZoomFrame

\* The frame's input receives a key press.
PressShortcut(event) ==
    /\ Len(egui_ctx.input_events) < MaxShortcuts
    /\ egui_ctx' = [egui_ctx EXCEPT !.input_events = Append(@, event)]
    /\ native_event' = [type |-> "PressShortcut", ctx |-> egui_ctx]
    /\ native_calls' = << >>
    /\ ZoomFrame

\* Zoom factors an application may have set: NaN, factors outside the
\* range, on its ends, and between two tenths.
StartFactors == {NaN} \cup { F32(z) : z \in {-50, 15, 20, 25, 100, 455, 500, 505, 700} }

MenuButtons == {"Zoom In", "Zoom Out", "Reset Zoom"}

InitZoom ==
    /\ state = NewState
    /\ pre = Snapshot(NewState)
    /\ native_event = NoEvent
    /\ touches_down = {}
    /\ response = None
    /\ native_calls = << >>
    /\ target_os = "linux"
    /\ egui_ctx \in { [DefaultContext EXCEPT !.zoom_factor = z] : z \in StartFactors }
    /\ composition_open = FALSE
    /\ synthetic_touch_open = FALSE
    /\ last = DefaultBuilder
    /\ new = DefaultBuilder
    /\ commands = << >>
    /\ recreate_window = FALSE
    /\ prev = DefaultBuilder
    /\ frames = 0

NextZoom ==
    \/ ZoomIn
    \/ ZoomOut
    \/ \E clicked \in MenuButtons \cup {"none"} : ZoomMenuButtons(clicked)
    \/ ZoomWithKeyboard
    \/ \E event \in {ZOOM_IN, ZOOM_OUT, ZOOM_RESET, PlainNum0} : PressShortcut(event)

SpecZoom == InitZoom /\ [][NextZoom]_vars

\* ------------------------------------------------------------------------
\* Properties of the reconciler

\* The runtime-mutable fields with the command each one emits, in the order
\* the claims list them.
RuntimeFields ==
    << <<"position", "OuterPosition">>,
       <<"inner_size", "InnerSize">>,
       <<"min_inner_size", "MinInnerSize">>,
       <<"max_inner_size", "MaxInnerSize">>,
       <<"fullscreen", "Fullscreen">>,
       <<"minimized", "Minimized">>,
       <<"maximized", "Maximized">>,
       <<"resizable", "Resizable">>,
       <<"transparent", "Transparent">>,
       <<"decorations", "Decorations">>,
       <<"icon", "WindowIcon">>,
       <<"visible", "Visible">>,
       <<"hittest", "CursorHitTest">> >>

CreationFields ==
    {"active", "close_button", "minimize_button", "maximize_button",
     "title_hidden", "titlebar_transparent", "fullsize_content_view"}

RuntimeKinds == {RuntimeFields[i][2] : i \in DOMAIN RuntimeFields}

OptionFields == {RuntimeFields[i][1] : i \in DOMAIN RuntimeFields} \cup CreationFields

\* Number of commands of kind k in cmds.
CountKind(k, cmds) == Cardinality({i \in DOMAIN cmds : cmds[i].cmd = k})

\* Position of command kind k in the fixed field order.
KindIndex(k) == CHOOSE i \in DOMAIN RuntimeFields : RuntimeFields[i][2] = k

\* Field f of n is specified and is not the value l holds (an icon is the
\* same value when it is the same allocation, or Some(None) on both sides).
Differs(f, n, l) ==
    /\ IsSome(n[f])
    /\ IF f = "icon" THEN ~IconEq(Unwrap(n.icon), l.icon) ELSE n[f] # l[f]

Called == frames >= 1

\* C1: calling changes_between_builders again with the same `new` against the
\* updated `last` returns no command and recreate flag false.
C1_Idempotent ==
    [][(frames >= 1 /\ frames' = frames + 1 /\ new' = new)
         => (commands' = << >> /\ recreate_window' = FALSE)]_vars

\* C2: no command is emitted for a field that `new` leaves unspecified or
\* whose value in `new` equals the value `last` held before the call.
C2_NoCommandWhenUnchanged ==
    Called =>
        \A i \in DOMAIN RuntimeFields :
            ~Differs(RuntimeFields[i][1], new, prev)
                => CountKind(RuntimeFields[i][2], commands) = 0

\* Field f of n carries a value: Some(v), and Some(Some(v)) for the doubly
\* optional position and inner_size (Some(None) has no value to command).
HasValue(f, n) ==
    /\ IsSome(n[f])
    /\ f \in {"position", "inner_size"} => IsSome(Unwrap(n[f]))

\* C3: every runtime-mutable field that carries a value in `new` and differs
\* from `last` gets exactly one command and is stored in `last`.
C3_OneCommandPerChangedField ==
    Called =>
        \A i \in DOMAIN RuntimeFields :
            (HasValue(RuntimeFields[i][1], new) /\ Differs(RuntimeFields[i][1], new, prev))
                => /\ CountKind(RuntimeFields[i][2], commands) = 1
                   /\ last[RuntimeFields[i][1]] = new[RuntimeFields[i][1]]

ScenarioCall == Called /\ prev = ScenarioPrevious /\ new = ScenarioDesired

\* C4 as stated: previous {size (800,600)} against desired {size (1024,768),
\* title "X"} returns InnerSize(1024,768) then Title("X"), recreate false.
C4_ResizeThenTitle ==
    ScenarioCall =>
        /\ Len(commands) = 2
        /\ commands[1].cmd = "InnerSize" /\ commands[1].val = Size1024
        /\ commands[2].cmd = "Title" /\ commands[2].val = "X"
        /\ recreate_window = FALSE

\* C4 amended: the same call returns the single command InnerSize(1024,768)
\* and recreate false; the title is not compared, no Title command is
\* emitted and the snapshot keeps its old title.
C4_ResizeOnly ==
    ScenarioCall =>
        /\ Len(commands) = 1
        /\ commands[1].cmd = "InnerSize" /\ commands[1].val = Size1024
        /\ CountKind("Title", commands) = 0
        /\ recreate_window = FALSE
        /\ last.title = prev.title
        /\ last.inner_size = Some(Some(Size1024))

C4_Witness == ScenarioCall /\ Len(commands) >= 1

\* C5: a creation-only field specified in `new` and differing from `last`
\* sets the recreate flag and is stored in `last`, no command is emitted for
\* it (every command is that of a runtime-mutable field `new` specifies), and
\* the flag is true exactly when some such field differed.
C5_CreationOnlyFields ==
    Called =>
        /\ \A f \in CreationFields :
               Differs(f, new, prev) => (recreate_window /\ last[f] = new[f])
        /\ recreate_window <=> (\E f \in CreationFields : Differs(f, new, prev))
        /\ \A i \in DOMAIN commands :
               /\ commands[i].cmd \in RuntimeKinds
               /\ IsSome(new[RuntimeFields[KindIndex(commands[i].cmd)][1]])

C5_Witness ==
    /\ Called
    /\ recreate_window
    /\ Differs("close_button", new, prev)
    /\ commands = << >>

\* C6: after the call every field specified in `new` has the same value in
\* `last` as in `new`.
C6_Converged ==
    Called => \A f \in OptionFields : IsSome(new[f]) => last[f] = new[f]

\* C7: the commands are a subsequence of the fixed field order, each kind at
\* most once.
C7_FieldOrder ==
    /\ \A i \in DOMAIN commands : commands[i].cmd \in RuntimeKinds
    /\ \A i, j \in DOMAIN commands :
           i < j => KindIndex(commands[i].cmd) < KindIndex(commands[j].cmd)

C7_Witness ==
    /\ Called
    /\ Len(commands) = Len(RuntimeFields)
    /\ commands[1].cmd = "OuterPosition"
    /\ commands[Len(commands)].cmd = "CursorHitTest"

\* ------------------------------------------------------------------------
\* Properties of the touch-to-pointer emulation

\* The events the latest native event appended to the queue.
Appended == SubSeq(state.events, pre.queued + 1, Len(state.events))

\* The latest step handled a native touch event.
TouchHandled == native_event.type = "Touch"

\* The touch just handled was the pointer surrogate when it arrived.
WasSurrogate ==
    /\ TouchHandled
    /\ IsSome(pre.pointer_touch_id)
    /\ Unwrap(pre.pointer_touch_id) = native_event.touch.id

\* The touch just handled claimed the free surrogate with its own Start.
ClaimedSurrogate ==
    /\ TouchHandled
    /\ native_event.touch.phase = "Started"
    /\ pre.pointer_touch_id = None

\* C8: at most one touch id is the pointer surrogate; a surrogate A is given
\* up only by A's own Ended or Cancelled, never changed by another touch, and
\* a surrogate is claimed only by a Started while none is held.
C8_SingleSurrogate ==
    /\ state.pointer_touch_id \in {None} \cup {Some(i) : i \in TouchIds}
    /\ IsSome(state.pointer_touch_id) => Unwrap(state.pointer_touch_id) \in touches_down
    /\ state.pointer_touch_id # pre.pointer_touch_id =>
          /\ TouchHandled
          /\ IF IsSome(pre.pointer_touch_id)
             THEN /\ state.pointer_touch_id = None
                  /\ native_event.touch.id = Unwrap(pre.pointer_touch_id)
                  /\ native_event.touch.phase \in {"Ended", "Cancelled"}
             ELSE /\ native_event.touch.phase = "Started"
                  /\ state.pointer_touch_id = Some(native_event.touch.id)

C8_Witness ==
    /\ TouchHandled
    /\ native_event.touch.phase = "Started"
    /\ IsSome(pre.pointer_touch_id)
    /\ Unwrap(pre.pointer_touch_id) # native_event.touch.id
    /\ state.pointer_touch_id = pre.pointer_touch_id

\* C9: an event of a touch that is not the surrogate and did not claim it
\* with its own Start appends exactly one raw Touch event and leaves the
\* pointer position and the surrogate unchanged.
C9_OtherTouchOnlyRaw ==
    (TouchHandled /\ ~WasSurrogate /\ ~ClaimedSurrogate) =>
        /\ Len(Appended) = 1
        /\ Appended[1].type = "Touch"
        /\ state.pointer_pos_in_points = pre.pointer_pos_in_points
        /\ state.pointer_touch_id = pre.pointer_touch_id

\* C10: Ended or Cancelled of the surrogate frees the surrogate, makes the
\* pointer position unknown and appends PointerGone; the surrogate then stays
\* free until the next Started touch, whatever its id, claims it.
C10_SurrogateReleased ==
    /\ (WasSurrogate /\ native_event.touch.phase \in {"Ended", "Cancelled"}) =>
          /\ state.pointer_touch_id = None
          /\ state.pointer_pos_in_points = None
          /\ Appended # << >>
          /\ Appended[Len(Appended)].type = "PointerGone"
          /\ Cardinality({i \in DOMAIN Appended : Appended[i].type = "PointerGone"}) = 1
    /\ pre.pointer_touch_id = None =>
          IF TouchHandled /\ native_event.touch.phase = "Started"
          THEN state.pointer_touch_id = Some(native_event.touch.id)
          ELSE state.pointer_touch_id = None

C10_Witness ==
    /\ WasSurrogate
    /\ native_event.touch.phase = "Cancelled"
    /\ IsSome(pre.pointer_pos_in_points)
    /\ state.pointer_touch_id = None
    /\ touches_down # {}

\* ------------------------------------------------------------------------
\* Properties of the IME bracketing

\* The events the step under way pushes onto the queue.
PushedNext == SubSeq(state'.events, Len(state.events) + 1, Len(state'.events))

\* Whether a reader is inside a composition just before the i-th event the
\* step pushes.
OpenBeforePushed(i) == CompositionOpenAfter(composition_open, SubSeq(PushedNext, 1, i - 1))

\* C11: over any sequence of Ime notifications, every CompositionEnd pushed
\* is preceded by a CompositionStart that no earlier CompositionEnd closed;
\* a Commit with no composition in progress pushes no unmatched
\* CompositionEnd.
C11_EveryEndClosesAStart ==
    [][\A i \in DOMAIN PushedNext :
           PushedNext[i].type = "CompositionEnd" => OpenBeforePushed(i)]_vars

\* The step under way handles an Ime notification of one of these kinds.
HandlesIme(kinds) == native_event'.type = "Ime" /\ native_event'.ime.kind \in kinds

\* C12: a Preedit pushes CompositionStart exactly when the flag was false,
\* sets the flag, and pushes exactly one CompositionUpdate after any Start;
\* a Commit pushes exactly one CompositionEnd and clears the flag.  So no
\* CompositionStart is pushed inside an open composition and every
\* CompositionUpdate is pushed inside one.
C12_Bracketing ==
    [][/\ HandlesIme({"Preedit"}) =>
            /\ PushedNext =
                   (IF state.input_method_editor_started THEN << >>
                                                         ELSE <<CompositionStart>>)
                       \o <<CompositionUpdate(native_event'.ime.text)>>
            /\ state'.input_method_editor_started
       /\ HandlesIme({"Commit"}) =>
            /\ PushedNext = <<CompositionEnd(native_event'.ime.text)>>
            /\ ~state'.input_method_editor_started
       /\ \A i \in DOMAIN PushedNext :
            /\ PushedNext[i].type = "CompositionStart" => ~OpenBeforePushed(i)
            /\ PushedNext[i].type = "CompositionUpdate" => OpenBeforePushed(i)]_vars

\* A Preedit has arrived inside a composition and pushed only its update.
C12_Witness ==
    /\ native_event.type = "Ime"
    /\ native_event.ime.kind = "Preedit"
    /\ pre.input_method_editor_started
    /\ composition_open
    /\ Len(Appended) = 1
    /\ Appended[1].type = "CompositionUpdate"

\* C13: Ime::Enabled and Ime::Disabled push no event and leave the flag and
\* every other field of the state as they were; a Disabled that arrives
\* during a composition does not close it.
C13_EnabledDisabledInert ==
    [][HandlesIme({"Enabled", "Disabled"}) =>
          /\ state' = state
          /\ composition_open' = composition_open]_vars

\* A Disabled has arrived during a composition, which is still open.
C13_Witness ==
    /\ native_event.type = "Ime"
    /\ native_event.ime.kind = "Disabled"
    /\ state.input_method_editor_started
    /\ composition_open
    /\ Appended = << >>

\* ------------------------------------------------------------------------
\* Properties of the cursor icon

\* The calls among `calls` that change the native cursor.
CursorCalls(calls) ==
    SelectSeq(calls, LAMBDA c : c.call \in {"set_cursor_visible", "set_cursor_icon"})

\* How many times `calls` update the native cursor: every update shows or
\* hides the cursor once, and sets the icon when there is one to set.
CursorUpdates(calls) == Len(SelectSeq(calls, LAMBDA c : c.call = "set_cursor_visible"))

\* The step under way is the second of two handle_platform_output calls in
\* a row that ask for the same icon.
SameIconTwice ==
    /\ native_event.type = "PlatformOutput"
    /\ native_event'.type = "PlatformOutput"
    /\ native_event'.platform_output.cursor_icon = native_event.platform_output.cursor_icon

\* C14 as stated: two calls in a row with the same icon issue exactly one
\* native cursor update together, and the second call issues none.
C14_ExactlyOneNativeCall ==
    [][SameIconTwice =>
          /\ CursorUpdates(native_calls) + CursorUpdates(native_calls') = 1
          /\ CursorCalls(native_calls') = << >>]_vars

\* C14 as the code has it: of two calls in a row with the same icon the
\* second issues no native cursor call and changes nothing about the cursor;
\* the first issues one update exactly when the pointer is in the window and
\* the icon is not already the remembered one, and none otherwise.
C14_SecondCallIsNoOp ==
    [][SameIconTwice =>
          /\ CursorCalls(native_calls') = << >>
          /\ state'.current_cursor_icon = state.current_cursor_icon
          /\ CursorUpdates(native_calls) =
                 IF /\ IsSome(state.pointer_pos_in_points)
                    /\ pre.current_cursor_icon
                           # Some(native_event.platform_output.cursor_icon)
                 THEN 1 ELSE 0]_vars

\* The same icon has been asked for again right after it was applied.
C14_Witness ==
    /\ native_event.type = "PlatformOutput"
    /\ IsSome(state.pointer_pos_in_points)
    /\ pre.current_cursor_icon = Some(native_event.platform_output.cursor_icon)
    /\ state.current_cursor_icon = pre.current_cursor_icon
    /\ CursorCalls(native_calls) = << >>

\* The step before this one brought the pointer into the window.
PointerJustEntered ==
    /\ native_event.type \in {"CursorMoved", "Touch"}
    /\ ~IsSome(pre.pointer_pos_in_points)
    /\ IsSome(state.pointer_pos_in_points)

\* C15: the remembered icon is forgotten when the pointer leaves, so that
\* the first request after the pointer has come back issues a native cursor
\* call, also for the icon that was applied before the pointer left and asked
\* for all the while.
C15_ReappliedOnReentry ==
    [][PointerJustEntered /\ native_event'.type = "PlatformOutput" =>
          CursorCalls(native_calls') # << >>]_vars

\* C16: set_cursor_icon changes the native cursor only while the pointer
\* position is known; while it is unknown it makes no native cursor call and,
\* the icon asked for not being the remembered one, forgets the remembered
\* icon.
C16_NativeCallOnlyInWindow ==
    native_event.type = "PlatformOutput" =>
        /\ CursorCalls(native_calls) # << >> => IsSome(state.pointer_pos_in_points)
        /\ ~IsSome(state.pointer_pos_in_points) =>
              /\ CursorCalls(native_calls) = << >>
              /\ pre.current_cursor_icon # Some(native_event.platform_output.cursor_icon)
                     => state.current_cursor_icon = None

\* Another icon than the remembered one has been asked for while the
\* pointer was out of the window.
C16_Witness ==
    /\ native_event.type = "PlatformOutput"
    /\ ~IsSome(state.pointer_pos_in_points)
    /\ IsSome(pre.current_cursor_icon)
    /\ pre.current_cursor_icon # Some(native_event.platform_output.cursor_icon)
    /\ state.current_cursor_icon = None
    /\ CursorCalls(native_calls) = << >>

\* ------------------------------------------------------------------------
\* Properties of the mouse wheel

\* How many of the events just appended are of this type.
CountAppended(type) == Len(SelectSeq(Appended, LAMBDA e : e.type = type))

\* The delta of the wheel event just handled, in points: lines times
\* points_per_scroll_line, pixels over the scale factor.
WheelPoints ==
    LET delta == native_event.delta
    IN IF delta.kind = "LineDelta"
       THEN <<delta.x * points_per_scroll_line, delta.y * points_per_scroll_line>>
       ELSE <<delta.x \div state.current_pixels_per_point,
              delta.y \div state.current_pixels_per_point>>

ZoomHeld == state.modifiers.ctrl \/ state.modifiers.command

\* C17: a wheel event with ctrl or command held appends exactly one Zoom
\* and no Scroll, also when shift is held; the factor is exp(delta.y / 200)
\* of the vertical delta in points.
C17_ZoomModifier ==
    native_event.type = "MouseWheel" /\ ZoomHeld =>
        /\ CountAppended("Zoom") = 1
        /\ CountAppended("Scroll") = 0
        /\ \A i \in DOMAIN Appended :
               Appended[i].type = "Zoom" =>
                   Appended[i].factor = exp(WheelPoints[2], 200)

\* A wheel event with a horizontal part has zoomed while shift was held too.
C17_Witness ==
    /\ native_event.type = "MouseWheel"
    /\ ZoomHeld
    /\ state.modifiers.shift
    /\ native_event.delta.x # 0
    /\ native_event.delta.y = 120
    /\ state.current_pixels_per_point = 1
    /\ CountAppended("Zoom") = 1
    /\ Appended[2].factor = exp(120, 200)

\* C18: every wheel event appends exactly two events: the raw MouseWheel
\* (unit Line with the lines of a LineDelta, unit Point with the pixels of a
\* PixelDelta over the scale factor, and the current modifiers), then one
\* Zoom or Scroll.
C18_RawThenZoomOrScroll ==
    native_event.type = "MouseWheel" =>
        /\ Len(Appended) = 2
        /\ Appended[1].type = "MouseWheel"
        /\ Appended[1].unit =
               (IF native_event.delta.kind = "LineDelta" THEN "Line" ELSE "Point")
        /\ Appended[1].delta =
               (IF native_event.delta.kind = "LineDelta"
                THEN <<native_event.delta.x, native_event.delta.y>>
                ELSE WheelPoints)
        /\ Appended[1].modifiers = state.modifiers
        /\ Appended[2].type \in {"Zoom", "Scroll"}

\* A line delta has been handled with a modifier held.
C18_Witness ==
    /\ native_event.type = "MouseWheel"
    /\ native_event.delta.kind = "LineDelta"
    /\ native_event.delta.y # 0
    /\ state.modifiers.alt
    /\ Len(Appended) = 2
    /\ Appended[1].unit = "Line"
    /\ Appended[1].modifiers.alt

\* C19: with shift held and neither ctrl nor command, the Scroll has
\* vertical 0 and horizontal the sum of the two deltas; with none of the
\* three held it carries the delta as it is.
C19_ShiftScrollsSideways ==
    native_event.type = "MouseWheel" /\ ~ZoomHeld =>
        /\ Len(Appended) = 2
        /\ Appended[2].type = "Scroll"
        /\ Appended[2].delta =
               (IF state.modifiers.shift THEN <<WheelPoints[1] + WheelPoints[2], 0>>
                                         ELSE WheelPoints)

\* Shift alone was held for a wheel event with both parts.
C19_Witness ==
    /\ native_event.type = "MouseWheel"
    /\ ~ZoomHeld
    /\ state.modifiers.shift
    /\ native_event.delta.x # 0
    /\ native_event.delta.y # 0
    /\ Appended[2].type = "Scroll"
    /\ Appended[2].delta[1] = WheelPoints[1] + WheelPoints[2]
    /\ Appended[2].delta[2] = 0

\* ------------------------------------------------------------------------
\* Properties of the character filter

\* Unicode control characters: U+0000..U+001F and U+007F..U+009F.
IsControl(ch) == ch <= 31 \/ (127 <= ch /\ ch <= 159)

\* U+E000..U+F8FF, U+F0000..U+FFFFD, U+100000..U+10FFFD
IsPrivateUse(ch) ==
    \/ 57344 <= ch /\ ch <= 63743
    \/ 983040 <= ch /\ ch <= 1048573
    \/ 1048576 <= ch /\ ch <= 1114109

\* C20: a ReceivedCharacter appends nothing but the Text of its character,
\* and that only for an accepted character; every control character, the
\* non-ASCII ones U+0080..U+009F included, and every private-use character
\* is dropped: no Text event, consumed = false.
C20_ControlAndPrivateUseDropped ==
    native_event.type = "ReceivedCharacter" =>
        /\ Appended # << >> => Appended = <<Text(<<native_event.ch>>)>>
        /\ IsControl(native_event.ch) \/ IsPrivateUse(native_event.ch) =>
              /\ CountAppended("Text") = 0
              /\ ~Unwrap(response).consumed

\* ------------------------------------------------------------------------
\* Properties of process_viewport_commands

\* The batch just processed and how.
Processed == native_event.type = "ViewportCommands"

\* How many of `calls` have this name.
CountCalls(calls, name) == Len(SelectSeq(calls, LAMBDA c : c.call = name))

\* How many commands of the batch are of this variant.
CountCommands(batch, variant) == Len(SelectSeq(batch, LAMBDA c : c.cmd = variant))

\* The positions of the batch that hold another command than a Drag.
NotDrag(batch) == { i \in DOMAIN batch : batch[i].cmd # "Drag" }

\* The place position i has among the positions in `keep`.
Rank(keep, i) == Cardinality({ j \in keep : j <= i })

\* The issuing viewport holds the focus.
DragHonoured ==
    /\ IsSome(native_event.focused)
    /\ Unwrap(native_event.focused) = native_event.viewport_id

\* C21: a Drag command calls drag_window exactly when `focused` is Some and
\* equals the issuing viewport; otherwise it makes no call and logs nothing,
\* and the batch is processed as if the Drag were not in it.
C21_DragOnlyWhenFocused ==
    Processed =>
        LET batch == native_event.commands
            keep == NotDrag(batch)
        IN /\ DragHonoured /\ ~Panicked(native_calls) =>
                  CountCalls(native_calls, "drag_window") = CountCommands(batch, "Drag")
           /\ ~DragHonoured =>
                  /\ CountCalls(native_calls, "drag_window") = 0
                  /\ native_calls =
                         process_viewport_commands(
                             SelectSeq(batch, LAMBDA c : c.cmd # "Drag"),
                             native_event.viewport_id, native_event.focused,
                             { Rank(keep, i) : i \in native_event.refused \cap keep })

\* A Drag from a viewport that another viewport's focus shuts out, followed
\* by a command that was applied.
C21_Witness ==
    /\ Processed
    /\ Len(native_event.commands) = 2
    /\ native_event.commands[1].cmd = "Drag"
    /\ native_event.commands[2].cmd = "Title"
    /\ IsSome(native_event.focused)
    /\ Unwrap(native_event.focused) # native_event.viewport_id
    /\ Len(native_calls) = 1
    /\ native_calls[1].call = "set_title"

\* The calls among `calls` that are made on the window.
WindowCalls(calls) == SelectSeq(calls, LAMBDA c : c.call \notin {"log::error", "panic"})

\* The window method each command stands for.
CallOf(command) ==
    CASE command.cmd = "Drag" -> "drag_window"
      [] command.cmd = "InnerSize" -> "set_inner_size"
      [] command.cmd = "Resize" -> "drag_resize_window"
      [] command.cmd = "Title" -> "set_title"
      [] command.cmd = "Transparent" -> "set_transparent"
      [] command.cmd = "Visible" -> "set_visible"
      [] command.cmd = "OuterPosition" -> "set_outer_position"
      [] command.cmd = "MinInnerSize" -> "set_min_inner_size"
      [] command.cmd = "MaxInnerSize" -> "set_max_inner_size"
      [] command.cmd = "ResizeIncrements" -> "set_resize_increments"
      [] command.cmd = "Resizable" -> "set_resizable"
      [] command.cmd = "EnableButtons" -> "set_enabled_buttons"
      [] command.cmd = "Minimized" -> "set_minimized"
      [] command.cmd = "Maximized" -> "set_maximized"
      [] command.cmd = "Fullscreen" -> "set_fullscreen"
      [] command.cmd = "Decorations" -> "set_decorations"
      [] command.cmd = "WindowLevel" -> "set_window_level"
      [] command.cmd = "WindowIcon" -> "set_window_icon"
      [] command.cmd = "IMEPosition" -> "set_ime_position"
      [] command.cmd = "IMEAllowed" -> "set_ime_allowed"
      [] command.cmd = "IMEPurpose" -> "set_ime_purpose"
      [] command.cmd = "RequestUserAttention" -> "request_user_attention"
      [] command.cmd = "SetTheme" -> "set_theme"
      [] command.cmd = "ContentProtected" -> "set_content_protected"
      [] command.cmd = "CursorPosition" -> "set_cursor_position"
      [] command.cmd = "CursorGrab" -> "set_cursor_grab"
      [] command.cmd = "CursorVisible" -> "set_cursor_visible"
      [] command.cmd = "CursorHitTest" -> "set_cursor_hittest"

\* A WindowIcon command whose bytes are not width * height pixels of four.
InvalidIcon(command) ==
    /\ command.cmd = "WindowIcon"
    /\ IsSome(command.val)
    /\ Len(Unwrap(command.val)[1]) # 4 * Unwrap(command.val)[2] * Unwrap(command.val)[3]

\* The commands of the batch that come before its first invalid icon.
BeforeInvalidIcon(batch) ==
    LET bad == { i \in DOMAIN batch : InvalidIcon(batch[i]) }
    IN IF bad = {} THEN batch
       ELSE SubSeq(batch, 1, (CHOOSE i \in bad : \A j \in bad : i <= j) - 1)

\* The calls that the native layer refused.
Refused(calls) == SelectSeq(WindowCalls(calls), LAMBDA c : ~c.ok)

\* C22 as stated: no batch ends in a fatal error, and every command of it
\* is applied exactly once, in list order, as one call on the window.
C22_OneCallPerCommand ==
    Processed =>
        /\ ~Panicked(native_calls)
        /\ Len(WindowCalls(native_calls)) = Len(native_event.commands)
        /\ \A i \in DOMAIN native_event.commands :
               WindowCalls(native_calls)[i].call = CallOf(native_event.commands[i])

\* C22 as the code has it: the only fatal error is the panic on a
\* WindowIcon with invalid bytes; every command before such an icon is
\* applied exactly once, in list order, as one call on the window, but for a
\* Drag from a viewport without the focus, which makes no call; a refused
\* call is logged (cursor position, grab, hit-test) or discarded (drag,
\* drag-resize) and the commands after it are applied all the same.
C22_OneCallPerAppliedCommand ==
    Processed =>
        LET applied == SelectSeq(BeforeInvalidIcon(native_event.commands),
                                 LAMBDA c : c.cmd # "Drag" \/ DragHonoured)
            calls == WindowCalls(native_calls)
        IN /\ Panicked(native_calls) <=>
                  \E i \in DOMAIN native_event.commands :
                      InvalidIcon(native_event.commands[i])
           /\ CountCalls(native_calls, "panic") <= 1
           /\ Len(calls) = Len(applied)
           /\ \A i \in DOMAIN applied : calls[i].call = CallOf(applied[i])
           /\ \A k \in DOMAIN native_calls :
                  native_calls[k].call = "log::error" =>
                      /\ k > 1
                      /\ ~native_calls[k - 1].ok
                      /\ native_calls[k - 1].call \in
                             {"set_cursor_position", "set_cursor_grab", "set_cursor_hittest"}
           /\ CountCalls(native_calls, "log::error") =
                  Len(SelectSeq(Refused(native_calls),
                                LAMBDA c : c.call \notin {"drag_window", "drag_resize_window"}))

\* The native layer refused the first command's call, which was logged, and
\* the second command was applied.
C22_Witness ==
    /\ Processed
    /\ Len(native_event.commands) = 2
    /\ native_event.commands[1].cmd = "CursorGrab"
    /\ native_event.commands[2].cmd = "Resize"
    /\ 1 \in native_event.refused
    /\ Len(native_calls) = 3
    /\ native_calls[2].call = "log::error"
    /\ native_calls[3].call = "drag_resize_window"

\* C23: a WindowIcon command with invalid bytes panics instead of being
\* skipped, and no command after it is applied; a WindowIcon command with
\* None or with valid bytes calls set_window_icon and raises nothing.
C23_InvalidIconPanics ==
    Processed =>
        LET batch == native_event.commands
            before == BeforeInvalidIcon(batch)
        IN /\ Len(before) < Len(batch) =>
                  /\ Panicked(native_calls)
                  /\ Len(WindowCalls(native_calls)) <= Len(before)
           /\ Len(before) = Len(batch) => ~Panicked(native_calls)
           /\ CountCalls(native_calls, "set_window_icon")
                  = CountCommands(before, "WindowIcon")

\* An invalid icon came first: the panic is all that happened, the command
\* after it was not applied.
C23_Witness ==
    /\ Processed
    /\ Len(native_event.commands) = 2
    /\ InvalidIcon(native_event.commands[1])
    /\ native_event.commands[2].cmd = "WindowIcon"
    /\ ~InvalidIcon(native_event.commands[2])
    /\ Len(native_calls) = 1
    /\ native_calls[1].call = "panic"

\* ------------------------------------------------------------------------
\* Properties of the EventResponse

\* on_event has just returned `response` for `native_event`.
Responded == IsSome(response)

Consumed == Unwrap(response).consumed

\* Events that never reach a widget: focus, geometry, scale, cursor crossing
\* the window's edge, modifiers, files.
WindowOnlyEvents ==
    {"Focused", "Resized", "Moved", "ScaleFactorChanged", "CursorEntered", "CursorLeft",
     "ModifiersChanged", "HoveredFile", "HoveredFileCancelled", "DroppedFile"}

\* Pointer events answered by wants_pointer_input, those answered by
\* is_using_pointer, and keyboard events.
AsksWantsPointer ==
    \/ native_event.type \in {"MouseInput", "MouseWheel", "TouchpadMagnify"}
    \/ native_event.type = "Touch" /\ native_event.touch.phase # "Moved"

AsksIsUsingPointer ==
    \/ native_event.type = "CursorMoved"
    \/ native_event.type = "Touch" /\ native_event.touch.phase = "Moved"

AsksWantsKeyboard == native_event.type \in {"KeyboardInput", "ReceivedCharacter", "Ime"}

WindowOnlyResponse ==
    native_event.type \in WindowOnlyEvents => response = Some(EventResponse(TRUE, FALSE))

PointerResponse ==
    /\ AsksWantsPointer => Consumed = egui_ctx.wants_pointer_input
    /\ AsksIsUsingPointer => Consumed = egui_ctx.is_using_pointer

TabKey ==
    native_event.type = "KeyboardInput" /\ native_event.input.virtual_keycode = Some("Tab")

\* A ReceivedCharacter that appended nothing.
CharacterDropped ==
    native_event.type = "ReceivedCharacter" /\ Len(state.events) = pre.queued

\* C24 as stated: window-only events return consumed = false and repaint =
\* true whatever the GUI wants, and for every pointer and keyboard event
\* consumed is the GUI's answer for the event's category.
C24_ConsumedIsTheAnswer ==
    Responded =>
        /\ WindowOnlyResponse
        /\ PointerResponse
        /\ AsksWantsKeyboard => Consumed = egui_ctx.wants_keyboard_input

\* C24, amended: window-only events return consumed = false and repaint =
\* true whatever the GUI wants; for a pointer event consumed is the GUI's
\* pointer answer; for a keyboard event it is the GUI's keyboard answer,
\* except that the Tab key is always consumed and a character that is
\* dropped never is.
C24_ConsumedIsTheAnswerButTabAndDropped ==
    Responded =>
        /\ WindowOnlyResponse
        /\ PointerResponse
        /\ AsksWantsKeyboard =>
               Consumed = IF TabKey THEN TRUE
                          ELSE IF CharacterDropped THEN FALSE
                          ELSE egui_ctx.wants_keyboard_input

\* A dropped character is not consumed although the GUI wants the keyboard.
C24_Witness ==
    /\ Responded /\ CharacterDropped /\ egui_ctx.wants_keyboard_input /\ ~Consumed
    /\ ~egui_ctx.wants_pointer_input

\* ------------------------------------------------------------------------
\* Properties of the keyboard

KeyHandled == native_event.type = "KeyboardInput"

\* C25: a KeyboardInput for the Tab key is consumed whether or not the GUI
\* wants the keyboard and whether the key went down or up; for any other key
\* (or none) consumed is the GUI's wants-keyboard answer.
C25_TabAlwaysConsumed ==
    KeyHandled =>
        Consumed = IF native_event.input.virtual_keycode = Some("Tab") THEN TRUE
                   ELSE egui_ctx.wants_keyboard_input

\* Tab is released while no widget wants the keyboard, and is consumed.
C25_Witness ==
    /\ KeyHandled
    /\ native_event.input = [state |-> "Released", virtual_keycode |-> Some("Tab")]
    /\ ~egui_ctx.wants_keyboard_input
    /\ Consumed

\* The Key events among the events just appended.
AppendedKeys == SelectSeq(Appended, LAMBDA e : e.type = "Key")

\* The egui::Key the table lists for a listed key code.
ListedKey(keycode) ==
    IF keycode \in RenamedKeyCodes
    THEN RenamedKeys[CHOOSE i \in DOMAIN RenamedKeys : RenamedKeys[i][1] = keycode][2]
    ELSE keycode

\* C26: in every state, and for a press as for a release, a listed key code
\* is translated to the key the table lists for it and to nothing else, and
\* an unlisted code to no key at all.
C26_ListedKeyOrNone ==
    KeyHandled /\ IsSome(native_event.input.virtual_keycode) =>
        LET keycode == Unwrap(native_event.input.virtual_keycode)
        IN IF keycode \in OtherKeys
           THEN AppendedKeys = << >>
           ELSE /\ Len(AppendedKeys) = 1
                /\ AppendedKeys[1].key = ListedKey(keycode)

\* A keypad digit has been released and translated to the digit's key.
C26_Witness ==
    /\ KeyHandled
    /\ native_event.input = [state |-> "Released", virtual_keycode |-> Some("Numpad7")]
    /\ Len(AppendedKeys) = 1
    /\ AppendedKeys[1].key = "Num7"

\* The KeyboardInput the step under way handles has no key code, or one the
\* table does not list.
UnlistedKeyNext ==
    /\ native_event'.type = "KeyboardInput"
    /\ \/ native_event'.input.virtual_keycode = None
       \/ Unwrap(native_event'.input.virtual_keycode)
              \notin SameNameKeys \cup RenamedKeyCodes

\* C27: a KeyboardInput with no key code or an unlisted one appends nothing
\* to the queue (no Key, Cut, Copy or Paste), whatever modifiers are held,
\* and leaves every other field of the input state as it was.
C27_UnlistedKeyChangesNothing == [][UnlistedKeyNext => state' = state]_vars

\* An unlisted key has been pressed with Ctrl held and text on the
\* clipboard, and nothing was appended.
C27_Witness ==
    /\ KeyHandled
    /\ native_event.input = [state |-> "Pressed", virtual_keycode |-> Some("LShift")]
    /\ state.modifiers.command /\ state.modifiers.shift
    /\ state.clipboard = Some(<<104, 105>>)
    /\ Appended = << >>

\* The key code of the KeyboardInput just handled, and whether it went down.
KeyCode == Unwrap(native_event.input.virtual_keycode)

KeyPressed == native_event.input.state = "Pressed"

\* The Cut, Copy and Paste events among the events just appended.
AppendedShortcuts == SelectSeq(Appended, LAMBDA e : e.type \in {"Cut", "Copy", "Paste"})

\* The clipboard can be read and holds some text.
ClipboardHasText == IsSome(state.clipboard) /\ Unwrap(state.clipboard) # << >>

\* command+X, command+C, command+V
CommandCombination(key) == state.modifiers.command /\ KeyCode = key

\* Shift+Delete, Ctrl+Insert, Shift+Insert on Windows
WindowsCut == target_os = "windows" /\ state.modifiers.shift /\ KeyCode = "Delete"

WindowsCopy == target_os = "windows" /\ state.modifiers.ctrl /\ KeyCode = "Insert"

WindowsPaste == target_os = "windows" /\ state.modifiers.shift /\ KeyCode = "Insert"

\* C28: a press of X, C or V with command held appends Cut, Copy or Paste
\* (Paste only if the clipboard holds text), and so do Shift+Delete,
\* Ctrl+Insert and Shift+Insert on Windows, Copy winning over Paste; nothing
\* else does, and a release never; at most one of the three is appended, it
\* comes first, and the Key event of the key follows it.
C28_ShortcutThenKey ==
    KeyHandled /\ IsSome(native_event.input.virtual_keycode) =>
        /\ Len(AppendedShortcuts) <= 1
        /\ ~KeyPressed => AppendedShortcuts = << >>
        /\ KeyPressed =>
             /\ CommandCombination("X") \/ WindowsCut => AppendedShortcuts = <<Cut>>
             /\ CommandCombination("C") \/ WindowsCopy => AppendedShortcuts = <<Copy>>
             /\ (CommandCombination("V") \/ WindowsPaste) /\ ~WindowsCopy =>
                    /\ ClipboardHasText =>
                           /\ Len(AppendedShortcuts) = 1
                           /\ AppendedShortcuts[1].type = "Paste"
                    /\ ~ClipboardHasText => AppendedShortcuts = << >>
             /\ ~(\/ CommandCombination("X") \/ CommandCombination("C")
                  \/ CommandCombination("V")
                  \/ WindowsCut \/ WindowsCopy \/ WindowsPaste) =>
                    AppendedShortcuts = << >>
        /\ AppendedShortcuts # << >> =>
             /\ Len(Appended) = 2
             /\ Appended[1] = AppendedShortcuts[1]
             /\ Appended[2] = Key(ListedKey(KeyCode), TRUE, state.modifiers)

\* On Windows, Insert has been pressed with Ctrl and Shift held and text on
\* the clipboard: Copy, not Paste, then the Key event.
C28_Witness ==
    /\ KeyHandled
    /\ native_event.input = [state |-> "Pressed", virtual_keycode |-> Some("Insert")]
    /\ target_os = "windows"
    /\ state.modifiers.ctrl /\ state.modifiers.shift
    /\ ClipboardHasText
    /\ Appended = <<Copy, Key("Insert", TRUE, state.modifiers)>>

\* ------------------------------------------------------------------------
\* Properties of the mouse

\* The PointerMoved and PointerButton events among the events just appended.
AppendedMoves == SelectSeq(Appended, LAMBDA e : e.type = "PointerMoved")

AppendedButtons == SelectSeq(Appended, LAMBDA e : e.type = "PointerButton")

\* A MouseInput for a button that translate_mouse_button maps was handled.
MappedButtonHandled ==
    /\ native_event.type = "MouseInput"
    /\ native_event.button \in {<<"Left">>, <<"Right">>, <<"Middle">>,
                                <<"Other", 1>>, <<"Other", 2>>}

\* The position of the CursorMoved just handled, in points.
MovedTo ==
    << native_event.position[1] \div state.current_pixels_per_point,
       native_event.position[2] \div state.current_pixels_per_point >>

\* The one PointerButton event a MouseInput appends: first in line, at the
\* tracked position, with the modifiers now held.
OnePointerButton ==
    /\ Len(AppendedButtons) = 1
    /\ Appended[1] = AppendedButtons[1]
    /\ AppendedButtons[1].pos = Unwrap(state.pointer_pos_in_points)
    /\ AppendedButtons[1].pressed = (native_event.state = "Pressed")
    /\ AppendedButtons[1].modifiers = state.modifiers

\* C29 as stated: in every state a CursorMoved sets the tracked position and
\* appends one PointerMoved, and a MouseInput for a mapped button appends
\* one PointerButton with the tracked position and the current modifiers.
C29_AlwaysMovedAndButton ==
    /\ native_event.type = "CursorMoved" =>
           /\ state.pointer_pos_in_points = Some(MovedTo)
           /\ AppendedMoves = <<PointerMoved(MovedTo)>>
    /\ MappedButtonHandled =>
           /\ IsSome(state.pointer_pos_in_points)
           /\ OnePointerButton

\* C29, amended: a CursorMoved always sets the tracked position, and
\* appends one PointerMoved unless touch simulation is on and no button is
\* down, when it appends nothing; a MouseInput for a mapped button appends
\* one PointerButton with the tracked position and the current modifiers if
\* the position is known, and nothing if it is not.
C29_MovedAndButtonWhenKnown ==
    /\ native_event.type = "CursorMoved" =>
           /\ state.pointer_pos_in_points = Some(MovedTo)
           /\ IF state.simulate_touch_screen /\ ~state.any_pointer_button_down
              THEN Appended = << >>
              ELSE AppendedMoves = <<PointerMoved(MovedTo)>>
    /\ MappedButtonHandled =>
           IF IsSome(state.pointer_pos_in_points) THEN OnePointerButton
                                                  ELSE Appended = << >>

\* Without touch simulation, the left button went down with Ctrl held at a
\* known position.
C29_Witness ==
    /\ MappedButtonHandled
    /\ native_event.state = "Pressed"
    /\ ~state.simulate_touch_screen
    /\ state.modifiers.ctrl
    /\ IsSome(state.pointer_pos_in_points)
    /\ Appended = <<PointerButton(Unwrap(state.pointer_pos_in_points), "Primary", TRUE,
                                  state.modifiers)>>

\* The synthetic touch event of on_mouse_button_input and on_cursor_moved.
SyntheticTouch(phase, pos) == TouchEvent(TouchDeviceId(0), TouchId(0), phase, pos, None)

\* Whether the synthetic touch has started and not ended just before the
\* i-th event the step pushes.
SyntheticOpenBeforePushed(i) ==
    SyntheticTouchOpenAfter(synthetic_touch_open, SubSeq(PushedNext, 1, i - 1))

\* The step under way handles a MouseInput for a mapped button at a known
\* position.
MappedButtonNext(element_state) ==
    /\ native_event'.type = "MouseInput"
    /\ native_event'.state = element_state
    /\ IsSome(translate_mouse_button(native_event'.button))
    /\ IsSome(state.pointer_pos_in_points)

\* What a simulated press and a simulated release append.
SimulatedPress ==
    state.simulate_touch_screen /\ MappedButtonNext("Pressed") =>
        /\ Len(PushedNext) = 2
        /\ PushedNext[1].type = "PointerButton" /\ PushedNext[1].pressed
        /\ PushedNext[2] = SyntheticTouch("Start", Unwrap(state.pointer_pos_in_points))

SimulatedRelease ==
    state.simulate_touch_screen /\ MappedButtonNext("Released") =>
        /\ Len(PushedNext) = 3
        /\ PushedNext[1].type = "PointerButton" /\ ~PushedNext[1].pressed
        /\ PushedNext[2] = PointerGone
        /\ PushedNext[3] = SyntheticTouch("End", Unwrap(state.pointer_pos_in_points))

\* Every synthetic Move or End pushed comes after a synthetic Start that no
\* End has closed.
SyntheticMoveAndEndInsideStart ==
    \A i \in DOMAIN PushedNext :
        IsSyntheticTouch(PushedNext[i]) /\ PushedNext[i].phase \in {"Move", "End"}
            => SyntheticOpenBeforePushed(i)

\* Without simulation no step pushes a synthetic touch.
NoSyntheticTouchUnlessSimulated ==
    ~state.simulate_touch_screen =>
        \A i \in DOMAIN PushedNext : ~IsSyntheticTouch(PushedNext[i])

TakesNext == native_event'.type = "TakeEguiInput"

\* The queue after the step begins with the queue before it.
QueueExtended ==
    /\ Len(state.events) <= Len(state'.events)
    /\ SubSeq(state'.events, 1, Len(state.events)) = state.events

IconCommands == SelectSeq(commands, LAMBDA c : c.cmd = "WindowIcon")

\* The snapshot held this very allocation before the call.
SameAllocation ==
    /\ IsSome(prev.icon) /\ IsSome(Unwrap(prev.icon))
    /\ Unwrap(Unwrap(prev.icon)).ptr = Unwrap(Unwrap(new.icon)).ptr

\* C32: a desired icon in the allocation the snapshot holds emits no
\* WindowIcon; one in another allocation emits one, with its image, even if
\* the contents are equal; a desired Some(None) emits WindowIcon(None)
\* unless the snapshot holds Some(None); an unspecified icon emits none; the
\* snapshot's icon becomes the desired one exactly when a command is emitted.
C32_IconByPointerIdentity ==
    Called =>
        /\ Len(IconCommands) <= 1
        /\ IF IconCommands = << >> THEN last.icon = prev.icon ELSE last.icon = new.icon
        /\ CASE new.icon = None -> IconCommands = << >>
             [] new.icon = Some(None) ->
                    IF prev.icon = Some(None) THEN IconCommands = << >>
                    ELSE IconCommands = <<Cmd("WindowIcon", None)>>
             [] OTHER ->
                    IF SameAllocation THEN IconCommands = << >>
                    ELSE IconCommands =
                             <<Cmd("WindowIcon", Some(Unwrap(Unwrap(new.icon)).img))>>

\* The desired icon has the contents of the snapshot's icon in another
\* allocation, and a WindowIcon command was emitted.
C32_Witness ==
    /\ Called
    /\ prev.icon = Some(Some(IconA1))
    /\ new.icon = Some(Some(IconA2))
    /\ IconA1.img = IconA2.img
    /\ Len(IconCommands) = 1
    /\ last.icon = Some(Some(IconA2))

\* ------------------------------------------------------------------------
\* Properties of focus changes

\* What the Focused(b) handled by the step under way does.
FocusedResets ==
    native_event'.type = "Focused" =>
        /\ state'.focused = native_event'.focused
        /\ state'.modifiers = DefaultModifiers
        /\ PushedNext = <<WindowFocused(native_event'.focused)>>

\* The events the step pushes are those of an unmodified wheel or key: no
\* modifier in them, no Zoom, no Cut, Copy or Paste.
PushedUnmodified ==
    \A i \in DOMAIN PushedNext :
        /\ PushedNext[i].type \in {"Key", "MouseWheel"} =>
               PushedNext[i].modifiers = DefaultModifiers
        /\ PushedNext[i].type \notin {"Zoom", "Cut", "Copy", "Paste"}

\* C33: Focused(b) sets focused to b, clears alt, ctrl, shift, mac_cmd and
\* command, and appends WindowFocused(b); and from a state with no modifier
\* held, every step that is not a ModifiersChanged leaves none held and
\* translates wheel and key events as unmodified.
C33_FocusResetsModifiers ==
    [][/\ FocusedResets
       /\ state.modifiers = DefaultModifiers /\ native_event'.type # "ModifiersChanged"
              => state'.modifiers = DefaultModifiers /\ PushedUnmodified]_vars

\* The window has just gained the focus.
C33_Witness ==
    /\ native_event.type = "Focused"
    /\ native_event.focused
    /\ state.focused
    /\ state.modifiers = DefaultModifiers
    /\ Appended = <<WindowFocused(TRUE)>>

\* ------------------------------------------------------------------------
\* Properties of the surrogate touch's events

\* The types of the events just appended, in order.
AppendedTypes == [i \in DOMAIN Appended |-> Appended[i].type]

\* The location of the touch just handled, in points.
TouchedAt ==
    << native_event.touch.location[1] \div state.current_pixels_per_point,
       native_event.touch.location[2] \div state.current_pixels_per_point >>

\* C34: the surrogate's Started appends Touch(Start), PointerMoved to the
\* touch location, PointerButton(Primary, pressed) at that location; its
\* Ended appends Touch(End), PointerButton(Primary, released), PointerGone;
\* its Cancelled appends Touch(Cancel), PointerGone and no PointerButton.
C34_SurrogateEventOrder ==
    /\ ClaimedSurrogate =>
           /\ AppendedTypes = <<"Touch", "PointerMoved", "PointerButton">>
           /\ Appended[1].phase = "Start"
           /\ Appended[2].pos = TouchedAt
           /\ Appended[3].pos = TouchedAt
           /\ Appended[3].button = "Primary" /\ Appended[3].pressed
    /\ WasSurrogate /\ native_event.touch.phase = "Ended" =>
           /\ AppendedTypes = <<"Touch", "PointerButton", "PointerGone">>
           /\ Appended[1].phase = "End"
           /\ Appended[2].button = "Primary" /\ ~Appended[2].pressed
    /\ WasSurrogate /\ native_event.touch.phase = "Cancelled" =>
           /\ AppendedTypes = <<"Touch", "PointerGone">>
           /\ Appended[1].phase = "Cancel"

\* ------------------------------------------------------------------------
\* Properties of unspecified fields

\* The command kinds of the runtime-mutable fields `new` leaves unspecified.
UnspecifiedKinds ==
    { RuntimeFields[i][2] : i \in { j \in DOMAIN RuntimeFields : new[RuntimeFields[j][1]] = None } }

\* The call repeated on the snapshot it got, but with another title in it.
WithTitle(t) == changes_between_builders(new, [prev EXCEPT !.title = t])

\* C35: a field that `new` leaves unspecified keeps its value in `last`, has
\* no command, and does not raise the recreate flag (the flag needs a
\* specified creation-only field); the title of `last` is neither written
\* nor read: with any other title the call returns the same commands and
\* flag and the same snapshot, that title apart.
C35_UnspecifiedFieldsUntouched ==
    Called =>
        /\ \A f \in OptionFields : new[f] = None => last[f] = prev[f]
        /\ \A i \in DOMAIN commands : commands[i].cmd \notin UnspecifiedKinds
        /\ recreate_window => \E f \in CreationFields : IsSome(new[f])
        /\ last.title = prev.title
        /\ \A t \in FieldValues.title :
               /\ WithTitle(t).commands = commands
               /\ WithTitle(t).recreate_window = recreate_window
               /\ WithTitle(t).last = [last EXCEPT !.title = t]

\* The desired builder names a title and one size; the snapshot kept its
\* title and its other fields, and one command was emitted.
C35_Witness ==
    /\ Called
    /\ new.title # prev.title
    /\ new.fullscreen = None /\ IsSome(prev.fullscreen)
    /\ last.fullscreen = prev.fullscreen
    /\ last.title = prev.title
    /\ Len(commands) = 1

\* ------------------------------------------------------------------------
\* Properties of the close request

\* C36: a CloseRequested window event appends one CloseRequested event and
\* returns consumed = true and repaint = true, whatever the GUI wants.
C36_CloseRequestedConsumed ==
    native_event.type = "CloseRequested" =>
        /\ Appended = <<CloseRequestedEvent>>
        /\ response = Some([repaint |-> TRUE, consumed |-> TRUE])

\* A close request was consumed although the GUI wants no input at all.
C36_Witness ==
    /\ native_event.type = "CloseRequested"
    /\ egui_ctx = DefaultContext
    /\ Responded /\ Consumed
    /\ Appended = <<CloseRequestedEvent>>

\* ------------------------------------------------------------------------
\* Properties of the InnerSize command

\* The InnerSize commands of a batch and the set_inner_size calls made.
InnerSizeCommands == SelectSeq(native_event.commands, LAMBDA c : c.cmd = "InnerSize")
InnerSizeCalls == SelectSeq(native_calls, LAMBDA c : c.call = "set_inner_size")

\* A dimension as the window receives it.
AtLeastOne(n) == IF n = 0 THEN 1 ELSE n

\* C37: an InnerSize(width, height) command never sets a window dimension
\* below 1: the call receives max(width, 1) and max(height, 1), so a
\* requested 0 is applied as 1.
C37_InnerSizeAtLeastOne ==
    Processed =>
        /\ \A i \in DOMAIN InnerSizeCalls :
               /\ InnerSizeCalls[i].arg[1] >= 1 /\ InnerSizeCalls[i].arg[2] >= 1
               /\ InnerSizeCalls[i].arg = <<AtLeastOne(InnerSizeCommands[i].val[1]),
                                            AtLeastOne(InnerSizeCommands[i].val[2])>>
        /\ ~Panicked(native_calls) => Len(InnerSizeCalls) = Len(InnerSizeCommands)

\* A requested size of 0 by 0 was applied as 1 by 1.
C37_Witness ==
    /\ Processed
    /\ Len(InnerSizeCommands) = 1 /\ InnerSizeCommands[1].val = <<0, 0>>
    /\ Len(InnerSizeCalls) = 1 /\ InnerSizeCalls[1].arg = <<1, 1>>

\* ------------------------------------------------------------------------
\* Properties of the zoom factor

\* The latest step was a call of zoom_in or zoom_out.
ZoomStepped == native_event.type \in {"zoom_in", "zoom_out"}

\* The zoom factor before and after the latest step.
FactorBefore == native_event.ctx.zoom_factor
FactorAfter == egui_ctx.zoom_factor

\* A number within [0.2, 5.0] that is a whole number of tenths.
TenthInRange(z) ==
    /\ z # NaN
    /\ z[1] >= 20 /\ z[1] <= 500
    /\ z[1] % 10 = 0

\* Whether zoom_menu_buttons has shown `button` enabled.
ShownEnabled(button) ==
    \E i \in DOMAIN native_calls :
        native_calls[i].button = button /\ native_calls[i].enabled

\* The factor when the Zoom Out button is shown: a click on Zoom In has
\* been applied by then.
FactorAtZoomOut ==
    IF native_event.clicked = "Zoom In" THEN FactorAfter ELSE FactorBefore

\* The ends of the range hold, and the buttons follow the factor.
EndsAndButtons ==
    /\ native_event.type = "zoom_in" /\ FactorBefore = <<500>> => FactorAfter = <<500>>
    /\ native_event.type = "zoom_out" /\ FactorBefore = <<20>> => FactorAfter = <<20>>
    /\ native_event.type = "zoom_menu_buttons" =>
           /\ ShownEnabled("Zoom In") <=> (FactorBefore # NaN /\ FactorBefore[1] < 500)
           /\ ShownEnabled("Zoom Out") <=> (FactorAtZoomOut # NaN /\ FactorAtZoomOut[1] > 20)

\* C38 as the code has it: after a call of zoom_in or zoom_out on a factor
\* that is a number, the factor lies in [0.2, 5.0] and is a multiple of
\* 0.1, while a NaN factor stays NaN; zoom_in at 5.0 and zoom_out at 0.2
\* leave the factor unchanged, and the Zoom In / Zoom Out buttons are
\* enabled exactly when the factor is below 5.0 / above 0.2.
C38_ZoomFactorOnTheGridUnlessNaN ==
    /\ ZoomStepped /\ FactorBefore # NaN => TenthInRange(FactorAfter)
    /\ ZoomStepped /\ FactorBefore = NaN => FactorAfter = NaN
    /\ EndsAndButtons

\* C38: after any sequence of zoom_in and zoom_out calls starting from any
\* zoom factor, the factor lies in [0.2, 5.0] and is a multiple of 0.1;
\* zoom_in at 5.0 and zoom_out at 0.2 leave the factor unchanged, and the
\* Zoom In / Zoom Out buttons are enabled exactly when the factor is below
\* 5.0 / above 0.2.
C38_ZoomFactorOnTheGrid ==
    /\ ZoomStepped => TenthInRange(FactorAfter)
    /\ EndsAndButtons

\* zoom_in has been called at 5.0 and has left the factor there.
C38_Witness ==
    /\ native_event.type = "zoom_in"
    /\ FactorBefore = <<500>> /\ FactorAfter = <<500>>

\* ------------------------------------------------------------------------
\* Properties of the zoom shortcuts

\* The key presses the frame's input held when zoom_with_keyboard began.
PressedBefore == native_event.ctx.input_events

WasPressed(shortcut) == \E i \in DOMAIN PressedBefore : PressedBefore[i] = shortcut

\* The presses that are left when those of `shortcuts` are consumed.
LeftWithout(shortcuts) == SelectSeq(PressedBefore, LAMBDA e : e \notin shortcuts)

\* One step up and one step down on the grid of tenths.
StepUp(z) == IF z[1] >= 500 THEN z ELSE <<z[1] + 10>>
StepDown(z) == IF z[1] <= 20 THEN z ELSE <<z[1] - 10>>

\* C39: in zoom_with_keyboard a consumed reset shortcut sets the factor to
\* exactly 1.0 and leaves the zoom-in and zoom-out shortcuts unconsumed and
\* unapplied; otherwise zoom-in is applied before zoom-out, each at most
\* once however often it was pressed.
C39_ResetTakesPrecedence ==
    native_event.type = "zoom_with_keyboard" =>
        IF WasPressed(ZOOM_RESET)
        THEN /\ FactorAfter = <<100>>
             /\ egui_ctx.input_events = LeftWithout({ZOOM_RESET})
        ELSE /\ egui_ctx.input_events = LeftWithout({ZOOM_IN, ZOOM_OUT})
             /\ TenthInRange(FactorBefore) =>
                    FactorAfter =
                        LET in == IF WasPressed(ZOOM_IN) THEN StepUp(FactorBefore)
                                                         ELSE FactorBefore
                        IN IF WasPressed(ZOOM_OUT) THEN StepDown(in) ELSE in
             /\ ~WasPressed(ZOOM_IN) /\ ~WasPressed(ZOOM_OUT) => FactorAfter = FactorBefore

\* Reset and zoom-in were pressed at 5.0: the factor is 1.0 and the zoom-in
\* press is still in the input.
C39_Witness ==
    /\ native_event.type = "zoom_with_keyboard"
    /\ PressedBefore = <<ZOOM_IN, ZOOM_RESET>>
    /\ FactorBefore = <<500>>
    /\ FactorAfter = <<100>>
    /\ egui_ctx.input_events = <<ZOOM_IN>>

====
